---- MODULE Spec2Model ----
(***************************************************************************)
(* A model of vite-plugin-cdp-mcp: the CircularBuffer and BufferManager of *)
(* src/services/buffer-manager.ts and the CDPClient of                     *)
(* src/services/cdp-client.ts.                                             *)
(*                                                                         *)
(* Conventions.  A JavaScript value that may be `undefined` is a sequence  *)
(* of length at most one: <<>> is undefined, <<v>> is the value v.  An     *)
(* array slot, an optional field of a record and an optional query option  *)
(* are all written this way.                                               *)
(*                                                                         *)
(* connect() calls withTimeout, attachEventListeners and                   *)
(* setupEventHandlers, which the source does not define.  withTimeout is   *)
(* taken to pass on the settlement of the promise it wraps; the other two  *)
(* are the operator subscribe.  The listener collections are declared as   *)
(* Set and used with push, length and for-of; they are modelled by the     *)
(* operations the code performs on them, as arrays.                        *)
(***************************************************************************)
EXTENDS Integers, Sequences, FiniteSets, TLC

(***************************************************************************)
(* Bounds of the model.                                                    *)
(***************************************************************************)
RingMaxCap == 3      \* largest capacity of the generic ring buffer
RingMaxAdds == 5     \* adds between two clears of the generic ring buffer
RingVals == 2        \* distinct items offered to the generic ring buffer
ConsoleCap == 2      \* BufferConfig.console of the store
NetworkCap == 2      \* BufferConfig.network of the store
MaxTs == 2           \* timestamps of stored records are 1..MaxTs
MaxSessions == 2     \* sessions the remote endpoint opens in one run
MaxListeners == 2    \* listeners registered per kind of event
MaxTargets == 4      \* targets in one discovery answer
MaxTries == 4        \* the count of one call's attempts stops here
MaxEmitted == 2      \* console messages followed during one evaluation

\* constructor: config.maxReconnectAttempts ?? 3
MaxReconnectAttempts == 3

VARIABLES
  ring,              \* a CircularBuffer<number>: [items, capacity, nextIndex]
  ringHist,          \* history: the items added since construction or clear
  ringClean,         \* history: no replaceFirst since construction or clear
  consoleBuffer,     \* BufferManager.consoleBuffer
  networkBuffer,     \* BufferManager.networkBuffer
  lastQuery,         \* the query answered by the last step, with its result
  focus,             \* which of the store's two buffers the run feeds
  client,            \* CDPClient.client: 0 is null, n > 0 is session n
  target,            \* CDPClient.target: Undefined is null
  reconnectAttempts, \* CDPClient.reconnectAttempts
  call,              \* each connect() invocation: where it is suspended,
                     \* the attempts and backoff waits it has made, and
                     \* whether disconnect() was invoked while it was in progress
  closing,           \* the session a disconnect() is awaiting the close of,
                     \* 0 when no disconnect() is in progress
  sessions,          \* the sessions the remote endpoint has opened
  endpoint,          \* the condition of the remote endpoint
  ret,               \* the call that acted, returned or raised in the last step
  evaluation,        \* the evaluateExpression call in flight: its timer, the
                     \* remote call, the outcome its caller has, who settled first
  health,            \* the getHealth call in flight: the session it probes
  capture,           \* MCPTools.consoleOutputBuffer and the handleRuntimeEval
                     \* calls in flight, each with the entries emitted meanwhile
  consoleListeners,  \* CDPClient.consoleListeners, in registration order
  networkListeners,  \* CDPClient.networkListeners, in registration order
  delivered,         \* how often each listener was called for the last event
  fnArg,             \* the argument given to a function of the models
  fnResult           \* what the function returned or threw

ringVars == <<ring, ringHist, ringClean>>
storeVars == <<consoleBuffer, networkBuffer, lastQuery, focus>>
clientVars == <<client, target, reconnectAttempts>>
connVars == <<clientVars, call, closing, sessions, endpoint, ret>>

evalVars == <<evaluation, health, capture>>
dispatchVars == <<consoleListeners, networkListeners, delivered>>
fnVars == <<fnArg, fnResult>>

vars == <<ringVars, fnVars, storeVars, connVars, evalVars, dispatchVars>>

\* What an operation of one component leaves alone.
notRingVars == <<storeVars, connVars, evalVars, dispatchVars, fnVars>>
notStoreVars ==
  <<ringVars, fnVars, clientVars, call, closing, sessions, endpoint, evalVars, dispatchVars>>
notConnVars == <<ringVars, fnVars, storeVars, evalVars, dispatchVars>>
notFnVars == <<ringVars, storeVars, connVars, evalVars, dispatchVars>>

(***************************************************************************)
(* CircularBuffer<T>                                                       *)
(***************************************************************************)
Undefined == <<>>

\* constructor(capacity): items = new Array(capacity), nextIndex = 0
CircularBuffer(capacity) ==
  [items |-> [i \in 0..(capacity - 1) |-> Undefined],
   capacity |-> capacity,
   nextIndex |-> 0]

\* An add that writes the slot and does not advance the write index.
addMutant(b, item) == [b EXCEPT !.items[b.nextIndex] = <<item>>]

add(b, item) ==
  [b EXCEPT !.items[b.nextIndex] = <<item>>,
            !.nextIndex = (b.nextIndex + 1) % b.capacity]

\* The loop of getAll from iteration i on: the slot at (nextIndex + i) %
\* capacity is pushed unless it is undefined.
RECURSIVE getAllFrom(_, _)
getAllFrom(b, i) ==
  IF i >= b.capacity THEN <<>>
  ELSE b.items[(b.nextIndex + i) % b.capacity] \o getAllFrom(b, i + 1)

\* A getAll that starts at slot 0 instead of the oldest slot.
RECURSIVE getAllFromSlotZero(_, _)
getAllFromSlotZero(b, i) ==
  IF i >= b.capacity THEN <<>>
  ELSE b.items[i] \o getAllFromSlotZero(b, i + 1)

getAllMutant(b) == getAllFromSlotZero(b, 0)

getAll(b) == getAllFrom(b, 0)

size(b) == Cardinality({i \in DOMAIN b.items : b.items[i] # Undefined})

\* A clear that empties the slots and keeps the write index.
clearMutant(b) == [b EXCEPT !.items = [i \in 0..(b.capacity - 1) |-> Undefined]]

clear(b) ==
  [b EXCEPT !.items = [i \in 0..(b.capacity - 1) |-> Undefined],
            !.nextIndex = 0]

getCapacity(b) == b.capacity

\* replaceFirst(predicate, newItem).  The predicate is given by the set of
\* items that satisfy it.  The scan is over the array slots 0, 1, ... (not
\* from the oldest item).  The result is [replaced, buffer].
\* A replaceFirst that stores the new item as one more item and leaves the
\* matching one in its slot.
replaceFirstFromMutant(b, matching, newItem, i) ==
  IF \E k \in i..(b.capacity - 1) : b.items[k] # Undefined /\ b.items[k][1] \in matching
  THEN [replaced |-> TRUE, buffer |-> add(b, newItem)]
  ELSE [replaced |-> FALSE, buffer |-> b]

RECURSIVE replaceFirstFrom(_, _, _, _)
replaceFirstFrom(b, matching, newItem, i) ==
  IF i >= b.capacity THEN [replaced |-> FALSE, buffer |-> b]
  ELSE IF b.items[i] # Undefined /\ b.items[i][1] \in matching
       THEN [replaced |-> TRUE, buffer |-> [b EXCEPT !.items[i] = <<newItem>>]]
       ELSE replaceFirstFrom(b, matching, newItem, i + 1)

\* A replaceFirst that reports a match and leaves the matching slot as it is.
replaceFirstMutant(b, matching, newItem) ==
  [replaced |-> replaceFirstFrom(b, matching, newItem, 0).replaced, buffer |-> b]

replaceFirst(b, matching, newItem) == replaceFirstFrom(b, matching, newItem, 0)

(***************************************************************************)
(* The generic ring buffer on its own: a CircularBuffer<number> of any     *)
(* capacity 1..RingMaxCap under add, clear and replaceFirst.               *)
(***************************************************************************)
RingItems == 1..RingVals

InitRing ==
  /\ \E capacity \in 1..RingMaxCap : ring = CircularBuffer(capacity)
  /\ ringHist = <<>>
  /\ ringClean = TRUE

\* The generic ring buffer where it is not the subject.
IdleRing ==
  /\ ring = CircularBuffer(1)
  /\ ringHist = <<>>
  /\ ringClean = TRUE

RingAdd ==
  /\ Len(ringHist) < RingMaxAdds
  /\ \E item \in RingItems :
       /\ ring' = add(ring, item)
       /\ ringHist' = Append(ringHist, item)
  /\ UNCHANGED <<ringClean, notRingVars>>

RingClear ==
  /\ ring' = clear(ring)
  /\ ringHist' = <<>>
  /\ ringClean' = TRUE
  /\ UNCHANGED notRingVars

RingReplaceFirst ==
  /\ \E old \in RingItems, newItem \in RingItems :
       ring' = replaceFirst(ring, {old}, newItem).buffer
  /\ ringClean' = (ringClean /\ ring' = ring)
  /\ UNCHANGED <<ringHist, notRingVars>>

NextRing == RingAdd \/ RingClear \/ RingReplaceFirst

(***************************************************************************)
(* Helpers of the queries: JavaScript truthiness, Array.prototype.filter,  *)
(* the stable Array.prototype.sort by timestamp, slice(-count), and the    *)
(* removal of the state field.                                             *)
(***************************************************************************)
\* `if (options.x)` for a numeric option: present and not 0.
TruthyNum(opt) == opt # Undefined /\ opt[1] # 0

\* `if (options.x)` for a string option: present and not ''.  A string that
\* is matched as a whole (level, method) is a TLA+ string; the domain is a
\* sequence of labels, '' being the empty sequence.
TruthyStr(opt) == opt # Undefined /\ opt[1] # ""
TruthyLabels(opt) == opt # Undefined /\ opt[1] # <<>>

\* x inserted into the sorted sequence s behind every element whose
\* timestamp is not larger: the order a stable sort gives.
RECURSIVE insertByTimestamp(_, _)
insertByTimestamp(s, x) ==
  IF s = <<>> THEN <<x>>
  ELSE IF s[Len(s)].timestamp <= x.timestamp THEN Append(s, x)
       ELSE Append(insertByTimestamp(SubSeq(s, 1, Len(s) - 1), x), s[Len(s)])

RECURSIVE sortFrom(_, _, _)
sortFrom(s, i, acc) ==
  IF i > Len(s) THEN acc ELSE sortFrom(s, i + 1, insertByTimestamp(acc, s[i]))

\* A query that does not sort.
sortByTimestampMutant(s) == s

\* entries.sort((a, b) => a.timestamp - b.timestamp)
sortByTimestamp(s) == sortFrom(s, 1, <<>>)

\* A limit that keeps the first count items: slice(0, count).
sliceLastMutant(s, count) == SubSeq(s, 1, IF Len(s) > count THEN count ELSE Len(s))

\* entries.slice(-count), count > 0
sliceLast(s, count) ==
  SubSeq(s, (IF Len(s) > count THEN Len(s) - count ELSE 0) + 1, Len(s))

\* A map callback that hands the record back as it is stored.
stripStateMutant(e) == e

\* ({ state, ...entry }) => entry
stripState(e) == [f \in (DOMAIN e) \ {"state"} |-> e[f]]

mapStripState(s) == [i \in 1..Len(s) |-> stripState(s[i])]

\* url.hostname.includes(domain) on sequences of labels
includes(hostname, domain) ==
  \E i \in 0..(Len(hostname) - Len(domain)) :
    SubSeq(hostname, i + 1, i + Len(domain)) = domain

(***************************************************************************)
(* BufferManager: the console buffer                                       *)
(***************************************************************************)
ConsoleLevels == {"log", "debug", "info", "warn", "error"}

addConsoleEntry(buffer, entry) == add(buffer, entry)

filterLevel(entries, options) ==
  IF TruthyStr(options.level)
  THEN LET Keep(e) == e.level = options.level[1] IN SelectSeq(entries, Keep)
  ELSE entries

filterSince(entries, options) ==
  IF TruthyNum(options.since)
  THEN LET Keep(e) == e.timestamp >= options.since[1] IN SelectSeq(entries, Keep)
  ELSE entries

applyLimit(entries, options) ==
  IF TruthyNum(options.count) /\ options.count[1] > 0
  THEN sliceLast(entries, options.count[1])
  ELSE entries

queryConsoleEntries(buffer, options) ==
  LET entries == sortByTimestamp(filterSince(filterLevel(getAll(buffer), options), options))
  IN [entries |-> mapStripState(applyLimit(entries, options)),
      totalCount |-> Len(entries)]

(***************************************************************************)
(* BufferManager: the network buffer                                       *)
(***************************************************************************)
\* The items of the buffer that satisfy (req) => req.requestId === requestId
sameRequestId(buffer, requestId) ==
  {buffer.items[i][1] : i \in {j \in DOMAIN buffer.items :
      buffer.items[j] # Undefined /\ buffer.items[j][1].requestId = requestId}}

\* An addNetworkRequest that always appends.
addNetworkRequestMutant(buffer, request) == add(buffer, request)

addNetworkRequest(buffer, request) ==
  LET r == replaceFirst(buffer, sameRequestId(buffer, request.requestId), request)
  IN IF r.replaced THEN r.buffer ELSE add(buffer, request)

filterMethod(requests, options) ==
  IF TruthyStr(options.method)
  THEN LET Keep(r) == r.method = options.method[1] IN SelectSeq(requests, Keep)
  ELSE requests

filterStatus(requests, options) ==
  IF TruthyNum(options.status)
  THEN LET Keep(r) == r.status = options.status IN SelectSeq(requests, Keep)
  ELSE requests

filterDomain(requests, options) ==
  IF TruthyLabels(options.domain)
  THEN LET Keep(r) == includes(r.url, options.domain[1]) IN SelectSeq(requests, Keep)
  ELSE requests

queryNetworkRequests(buffer, options) ==
  LET requests ==
        sortByTimestamp(
          filterSince(
            filterDomain(
              filterStatus(filterMethod(getAll(buffer), options), options),
              options),
            options))
  IN [requests |-> mapStripState(applyLimit(requests, options)),
      totalCount |-> Len(requests)]

(***************************************************************************)
(* The inputs offered to the store.  Levels, methods and status codes are  *)
(* those the tool schemas admit; `since` may be 0 and the domain may be    *)
(* the empty string.                                                       *)
(***************************************************************************)
Opt(S) == {Undefined} \cup {<<v>> : v \in S}

SampleLevels == {"info", "error"}

ConsoleEntryInputs ==
  [level : SampleLevels, timestamp : 1..MaxTs, state : {"Buffered", "Streamed"}]

ConsoleQueryOptions ==
  [count : Opt({1, ConsoleCap}), since : Opt({0, MaxTs}), level : Opt(SampleLevels)]

NumIds == NetworkCap + 1

HostOf(requestId) ==
  CASE requestId = 1 -> <<"api", "example", "com">>
    [] requestId = 2 -> <<"example", "org">>
    [] requestId = 3 -> <<"cdn", "example", "com">>
    [] OTHER -> <<"localhost">>

MethodOf(requestId) == IF requestId % 2 = 1 THEN "GET" ELSE "POST"

\* A request as created (no status yet) or as completed with status 200, at
\* the earliest or the latest timestamp.
NetworkRequestInputs ==
  {[requestId |-> id, url |-> HostOf(id), method |-> MethodOf(id),
    status |-> l.status, timestamp |-> ts, state |-> l.state] :
     id \in 1..NumIds, ts \in {1, MaxTs},
     l \in {[status |-> Undefined, state |-> "Created"],
            [status |-> <<200>>, state |-> "Completed"]}}

NetworkQueryOptions ==
  [count : Opt({1, NetworkCap}), since : Opt({MaxTs}), method : Opt({"GET"}),
   status : Opt({200}), domain : Opt({<<>>, <<"example", "com">>})]

NoQuery == [kind |-> "none"]

NoRet == [op |-> "none"]

(***************************************************************************)
(* BufferManager: state and operations                                     *)
(***************************************************************************)
\* The two buffers of the store share no state and no operation but
\* clear(): a run feeds and queries one of them, chosen at the start.
InitStore ==
  /\ consoleBuffer = CircularBuffer(ConsoleCap)
  /\ networkBuffer = CircularBuffer(NetworkCap)
  /\ lastQuery = NoQuery
  /\ focus \in {"console", "network"}

IdleStore ==
  /\ consoleBuffer = CircularBuffer(ConsoleCap)
  /\ networkBuffer = CircularBuffer(NetworkCap)
  /\ lastQuery = NoQuery
  /\ focus = "console"

\* The operations of the store are synchronous: each runs to completion, so
\* a query's result is handed back (QueryReturn) before the next operation
\* starts.
AddConsoleEntry ==
  /\ lastQuery = NoQuery
  /\ focus = "console"
  /\ \E entry \in ConsoleEntryInputs :
       consoleBuffer' = addConsoleEntry(consoleBuffer, entry)
  /\ ret' = NoRet
  /\ UNCHANGED <<networkBuffer, lastQuery, focus, notStoreVars>>

QueryConsoleEntries ==
  /\ lastQuery = NoQuery
  /\ focus = "console"
  /\ \E options \in ConsoleQueryOptions :
       lastQuery' = [kind |-> "console", options |-> options,
                     result |-> queryConsoleEntries(consoleBuffer, options)]
  /\ ret' = NoRet
  /\ UNCHANGED <<consoleBuffer, networkBuffer, focus, notStoreVars>>

AddNetworkRequest ==
  /\ lastQuery = NoQuery
  /\ focus = "network"
  /\ \E request \in NetworkRequestInputs :
       networkBuffer' = addNetworkRequest(networkBuffer, request)
  /\ ret' = NoRet
  /\ UNCHANGED <<consoleBuffer, lastQuery, focus, notStoreVars>>

QueryNetworkRequests ==
  /\ lastQuery = NoQuery
  /\ focus = "network"
  /\ \E options \in NetworkQueryOptions :
       lastQuery' = [kind |-> "network", options |-> options,
                     result |-> queryNetworkRequests(networkBuffer, options)]
  /\ ret' = NoRet
  /\ UNCHANGED <<consoleBuffer, networkBuffer, focus, notStoreVars>>

QueryReturn ==
  /\ lastQuery # NoQuery
  /\ lastQuery' = NoQuery
  /\ ret' = NoRet
  /\ UNCHANGED <<consoleBuffer, networkBuffer, focus, notStoreVars>>

\* BufferManager.clear()
ClearStore ==
  /\ lastQuery = NoQuery
  /\ consoleBuffer' = clear(consoleBuffer)
  /\ networkBuffer' = clear(networkBuffer)
  /\ ret' = [op |-> "clear", cleared |-> size(consoleBuffer) + size(networkBuffer)]
  /\ UNCHANGED <<lastQuery, focus, notStoreVars>>

NextStore ==
  \/ AddConsoleEntry
  \/ QueryConsoleEntries
  \/ AddNetworkRequest
  \/ QueryNetworkRequests
  \/ QueryReturn
  \/ ClearStore

(***************************************************************************)
(* BrowserTarget (models/browser-target.ts)                               *)
(***************************************************************************)
createBrowserTarget(input) == [id |-> input.id, state |-> "Discovered"]

\* toAttached and toActive throw on a null target (a TypeError) and on a
\* target in another state than the one they start from.
toAttachedThrows(t) == t = Undefined \/ t[1].state # "Discovered"

toAttached(t) == <<[t[1] EXCEPT !.state = "Attached"]>>

toActiveThrows(t) == t = Undefined \/ t[1].state # "Attached"

toActive(t) == <<[t[1] EXCEPT !.state = "Active"]>>

\* new URL(url) on the urls of the model: it throws on the empty string,
\* and gives hostname and port otherwise.
URL(url) ==
  CASE url = "https://example.com" -> <<[hostname |-> "example.com", port |-> ""]>>
    [] url = "http://localhost:3000/" -> <<[hostname |-> "localhost", port |-> "3000"]>>
    [] url = "http://localhost:5173/" -> <<[hostname |-> "localhost", port |-> "5173"]>>
    [] OTHER -> Undefined

isLocalhost5173Target(t) ==
  URL(t.url) # Undefined /\ URL(t.url)[1].hostname = "localhost" /\ URL(t.url)[1].port = "5173"

\* A selectPriorityTarget that takes any first target when none is local.
selectPriorityTargetMutant(targets) ==
  LET local == SelectSeq(targets, isLocalhost5173Target)
  IN IF local # <<>> THEN <<local[1]>>
     ELSE IF targets # <<>> THEN <<targets[1]>> ELSE Undefined

selectPriorityTarget(targets) ==
  LET first(Keep(_)) ==
        LET kept == SelectSeq(targets, Keep) IN IF kept = <<>> THEN Undefined ELSE <<kept[1]>>
      P1(t) == isLocalhost5173Target(t) /\ t.canAttach
      P2(t) == URL(t.url) # Undefined /\ URL(t.url)[1].hostname = "localhost" /\ t.canAttach
      P3(t) == t.canAttach
  IN IF first(P1) # Undefined THEN first(P1)
     ELSE IF first(P2) # Undefined THEN first(P2)
     ELSE first(P3)

(***************************************************************************)
(* CDPClient: connect, handleConnectionError, disconnect                   *)
(***************************************************************************)
ConnectCalls == {1}

Domains == {"Runtime", "Console", "Network", "Page"}

NoClient == 0

\* What discovery answers: CDP.List fails, or lists page targets, which
\* discoverTargets maps to attachable targets in state Discovered.
LocalPage == [id |-> "page", url |-> "http://localhost:5173/", canAttach |-> TRUE]

ListOutcomes ==
  CASE endpoint = "down" -> {[ok |-> FALSE]}
    [] endpoint = "up" -> {[ok |-> TRUE, targets |-> <<LocalPage>>]}
    [] OTHER -> {[ok |-> FALSE], [ok |-> TRUE, targets |-> <<>>],
                 [ok |-> TRUE, targets |-> <<LocalPage>>]}

\* Whether CDP.New, CDP(...) and the enable calls may fail, and which
\* domains fail to enable.
MayFail == endpoint # "up"

EnableFailures == IF MayFail THEN {{}, {"Network"}} ELSE {{}}

Session == [open |-> TRUE, enabled |-> {}, consoleBindings |-> 0, networkBindings |-> 0]

\* A session after close(): it emits nothing and its handlers are gone.
ClosedSession == [open |-> FALSE, enabled |-> {}, consoleBindings |-> 0, networkBindings |-> 0]

Saturate(n) == IF n < MaxTries THEN n + 1 ELSE n

\* setTimeout(resolve, reconnectDelay * Math.pow(2, reconnectAttempts - 1)),
\* in units of reconnectDelay
RECURSIVE Pow2(_)
Pow2(n) == IF n = 0 THEN 1 ELSE 2 * Pow2(n - 1)

\* handleConnectionError(error), up to its sleep or its throw.  The delay
\* is computed from the incremented counter.
handleConnectionError(c) ==
  IF reconnectAttempts < MaxReconnectAttempts
  THEN /\ reconnectAttempts' = reconnectAttempts + 1
       /\ call' = [call EXCEPT ![c].pc = "sleep",
                               ![c].waits = IF Len(@) < MaxTries
                                            THEN Append(@, Pow2(reconnectAttempts))
                                            ELSE @]
       /\ ret' = NoRet
  ELSE /\ UNCHANGED reconnectAttempts
       /\ call' = [call EXCEPT ![c].pc = "idle"]
       /\ ret' = [op |-> "connect", call |-> c, outcome |-> "raised",
                  named |-> MaxReconnectAttempts]

\* connect() up to its first await: it returns at once when a session handle
\* exists, and otherwise starts the discovery.  `calls` is the record of the
\* invocations as the caller leaves it.
connect(c, calls) ==
  IF client # NoClient
  THEN /\ call' = [calls EXCEPT ![c].pc = "idle"]
       /\ ret' = [op |-> "connect", call |-> c, outcome |-> "returned"]
  ELSE /\ call' = [calls EXCEPT ![c].pc = "discover", ![c].tries = Saturate(@)]
       /\ ret' = NoRet

InitConn ==
  /\ client = NoClient
  /\ target = Undefined
  /\ reconnectAttempts = 0
  /\ call = [c \in ConnectCalls |->
               [pc |-> "idle", sid |-> NoClient, tries |-> 0, waits |-> <<>>,
                interrupted |-> FALSE]]
  /\ closing = NoClient
  /\ sessions = <<>>
  /\ ret = NoRet

\* A caller invokes connect().
ConnectStart(c) ==
  /\ call[c].pc = "idle"
  /\ connect(c, [call EXCEPT ![c].tries = 0, ![c].waits = <<>>, ![c].interrupted = FALSE])
  /\ UNCHANGED <<clientVars, closing, sessions, endpoint, notConnVars>>

\* The discovery settles: selection, creation of a target, session open.
DiscoverDone(c) ==
  /\ call[c].pc = "discover"
  /\ \E outcome \in ListOutcomes :
       IF ~outcome.ok
       THEN handleConnectionError(c) /\ UNCHANGED <<client, target>>
       ELSE LET selectedTarget == selectPriorityTarget(outcome.targets)
            IN IF selectedTarget = Undefined
               THEN /\ call' = [call EXCEPT ![c].pc = "create"]
                    /\ ret' = NoRet
                    /\ UNCHANGED <<client, target, reconnectAttempts>>
               ELSE /\ target' = <<createBrowserTarget(selectedTarget[1])>>
                    /\ call' = [call EXCEPT ![c].pc = "open"]
                    /\ ret' = NoRet
                    /\ UNCHANGED <<client, reconnectAttempts>>
  /\ UNCHANGED <<closing, sessions, endpoint, notConnVars>>

\* createNewTarget() settles.  It returns nothing, so selectedTarget stays
\* undefined and the attempt throws CDPTargetError whether or not the target
\* was created; a created target is left in this.target.
CreateDone(c) ==
  /\ call[c].pc = "create"
  /\ \E created \in (IF MayFail THEN {TRUE, FALSE} ELSE {TRUE}) :
       target' = IF created THEN <<createBrowserTarget([id |-> "new"])>> ELSE target
  /\ handleConnectionError(c)
  /\ UNCHANGED <<client, closing, sessions, endpoint, notConnVars>>

\* CDP({target, port, host}) settles: this.client is assigned and the four
\* domains are asked to enable.
OpenDone(c) ==
  /\ call[c].pc = "open"
  /\ \/ /\ Len(sessions) < MaxSessions
        /\ sessions' = Append(sessions, Session)
        /\ client' = Len(sessions) + 1
        /\ call' = [call EXCEPT ![c].pc = "enable", ![c].sid = Len(sessions) + 1]
        /\ ret' = NoRet
        /\ UNCHANGED reconnectAttempts
     \/ /\ MayFail
        /\ handleConnectionError(c)
        /\ UNCHANGED <<client, sessions>>
  /\ UNCHANGED <<target, closing, endpoint, notConnVars>>

\* Promise.all of the four enable calls settles.  The calls were made on
\* the session that this call opened; on a session that has been closed
\* since, they are rejected.
EnableDone(c) ==
  /\ call[c].pc = "enable"
  /\ \E failed \in (IF sessions[call[c].sid].open THEN EnableFailures ELSE {Domains}) :
       /\ sessions' = [sessions EXCEPT ![call[c].sid].enabled = Domains \ failed]
       /\ IF failed # {} \/ toAttachedThrows(target) \/ toActiveThrows(toAttached(target))
          THEN handleConnectionError(c) /\ UNCHANGED target
          ELSE /\ target' = toActive(toAttached(target))
               /\ reconnectAttempts' = 0
               /\ call' = [call EXCEPT ![c].pc = "attach"]
               /\ ret' = NoRet
  /\ UNCHANGED <<client, closing, endpoint, notConnVars>>

\* What connect() still calls after the retry counter is reset,
\* attachEventListeners() and setupEventHandlers(): the subscription, once,
\* to the console stream and to the network streams of the session.
subscribe(ss, sid) ==
  IF sid = NoClient THEN ss
  ELSE [ss EXCEPT ![sid].consoleBindings = @ + 1, ![sid].networkBindings = @ + 1]

\* The rest of a successful connect(): it returns to its caller.
AttachDone(c) ==
  /\ call[c].pc = "attach"
  /\ sessions' = subscribe(sessions, client)
  /\ call' = [call EXCEPT ![c].pc = "idle"]
  /\ ret' = [op |-> "connect", call |-> c, outcome |-> "returned"]
  /\ UNCHANGED <<clientVars, closing, endpoint, notConnVars>>

\* The backoff timer of handleConnectionError fires: await this.connect().
SleepDone(c) ==
  /\ call[c].pc = "sleep"
  /\ connect(c, call)
  /\ UNCHANGED <<clientVars, closing, sessions, endpoint, notConnVars>>

\* disconnect() up to its await: without a session handle it returns at
\* once and touches nothing.
DisconnectStart ==
  /\ closing = NoClient
  /\ closing' = client
  /\ ret' = IF client # NoClient THEN NoRet ELSE [op |-> "disconnect", outcome |-> "returned"]
  /\ call' = [c \in DOMAIN call |->
                IF call[c].pc # "idle" THEN [call[c] EXCEPT !.interrupted = TRUE] ELSE call[c]]
  /\ UNCHANGED <<clientVars, sessions, endpoint, notConnVars>>

\* client.close() settles, resolved or rejected; the finally block clears
\* the handle, the target and the retry counter.
DisconnectDone ==
  /\ closing # NoClient
  /\ \E closed \in (IF MayFail THEN {TRUE, FALSE} ELSE {TRUE}) :
       sessions' = IF closed THEN [sessions EXCEPT ![closing] = ClosedSession] ELSE sessions
  /\ client' = NoClient
  /\ target' = Undefined
  /\ reconnectAttempts' = 0
  /\ closing' = NoClient
  /\ ret' = [op |-> "disconnect", outcome |-> "returned"]
  /\ UNCHANGED <<call, endpoint, notConnVars>>

NextConn ==
  \/ \E c \in ConnectCalls :
       \/ ConnectStart(c)
       \/ DiscoverDone(c)
       \/ CreateDone(c)
       \/ OpenDone(c)
       \/ EnableDone(c)
       \/ AttachDone(c)
       \/ SleepDone(c)
  \/ DisconnectStart
  \/ DisconnectDone

(***************************************************************************)
(* CDPClient: connect() invoked again while an earlier connect() is still  *)
(* suspended, and the remote end closing the session                       *)
(***************************************************************************)
\* MCPServer.initialize is called from two places of the plugin, so two
\* connect() invocations can be suspended at once.
ConcurrentCalls == {1, 2}

InitConcurrent ==
  /\ client = NoClient
  /\ target = Undefined
  /\ reconnectAttempts = 0
  /\ call = [c \in ConcurrentCalls |->
               [pc |-> "idle", sid |-> NoClient, tries |-> 0, waits |-> <<>>,
                interrupted |-> FALSE]]
  /\ closing = NoClient
  /\ sessions = <<>>
  /\ ret = NoRet

\* The remote end closes a session.  Nothing of CDPClient runs: the class
\* registers no handler for the end of its session, and client, target and
\* reconnectAttempts are written by connect, createNewTarget,
\* handleConnectionError and disconnect alone.
SessionLost(sid) ==
  /\ sid \in 1..Len(sessions)
  /\ sessions[sid].open
  /\ sessions' = [sessions EXCEPT ![sid] = ClosedSession]
  /\ ret' = [op |-> "sessionLost", sid |-> sid]
  /\ UNCHANGED <<clientVars, call, closing, endpoint, notConnVars>>

NextConcurrent ==
  \/ \E c \in ConcurrentCalls : ConnectStart(c)
  \/ \E c \in ConcurrentCalls : DiscoverDone(c)
  \/ \E c \in ConcurrentCalls : OpenDone(c)
  \/ \E c \in ConcurrentCalls : EnableDone(c)
  \/ \E c \in ConcurrentCalls : AttachDone(c)
  \/ \E c \in ConcurrentCalls : SleepDone(c)
  \/ DisconnectStart
  \/ DisconnectDone

\* One caller at a time, an endpoint that answers, and sessions that the
\* remote end may close.
Settles ==
  \/ \E c \in ConnectCalls :
       DiscoverDone(c) \/ OpenDone(c) \/ EnableDone(c) \/ AttachDone(c) \/ SleepDone(c)
  \/ DisconnectDone

NextLoss ==
  \/ \E c \in ConnectCalls : ConnectStart(c)
  \/ DisconnectStart
  \/ \E sid \in 1..MaxSessions : SessionLost(sid)
  \/ Settles

(***************************************************************************)
(* CDPClient: evaluateExpression                                           *)
(***************************************************************************)
NoEvaluation == [timer |-> "none", remote |-> "none", outcome |-> "none", first |-> "none"]

\* How client.Runtime.evaluate settles: resolved with a value, resolved with
\* exceptionDetails, or rejected.
RemoteOutcomes == {"value", "exception", "rejected"}

\* An evaluateExpression that arms its timer before it looks at the handle.
evaluateExpressionMutant(cl, ev) ==
  IF cl = NoClient
  THEN [evaluation |-> [ev EXCEPT !.timer = "armed"], outcome |-> "notConnected"]
  ELSE [evaluation |-> [timer |-> "armed", remote |-> "pending",
                        outcome |-> "none", first |-> "none"],
        outcome |-> "pending"]

\* evaluateExpression up to the race: the throw without a session handle,
\* else the timer and the remote call.
evaluateExpression(cl, ev) ==
  IF cl = NoClient
  THEN [evaluation |-> ev, outcome |-> "notConnected"]
  ELSE [evaluation |-> [timer |-> "armed", remote |-> "pending",
                        outcome |-> "none", first |-> "none"],
        outcome |-> "pending"]

\* A race whose later settlement replaces the outcome.
raceMutant(outcome, settlement) == settlement

\* Promise.race: the promise takes the first settlement and keeps it.
race(outcome, settlement) == IF outcome = "none" THEN settlement ELSE outcome

NoProbe == [pc |-> "idle", sid |-> NoClient]

\* new MCPTools(...): consoleOutputBuffer = [], and no tool call in flight.
EvalCalls == {1, 2}

NoCapture ==
  [consoleOutputBuffer |-> <<>>,
   evals |-> [e \in EvalCalls |-> [pc |-> "idle", emitted |-> <<>>, consoleOutput |-> <<>>]]]

InitEval == evaluation = NoEvaluation /\ health = NoProbe /\ capture = NoCapture

\* A caller invokes evaluateExpression; the timer and the remote call of an
\* earlier invocation have settled.
EvaluateExpression ==
  /\ evaluation.timer # "armed"
  /\ evaluation.remote # "pending"
  /\ LET r == evaluateExpression(client, evaluation)
     IN /\ evaluation' = r.evaluation
        /\ ret' = [op |-> "evaluateExpression", outcome |-> r.outcome]
  /\ UNCHANGED <<clientVars, call, closing, sessions, endpoint, health, capture,
                 dispatchVars, ringVars, fnVars, storeVars>>

\* The remote call settles.
EvalRemoteSettles ==
  /\ evaluation.remote = "pending"
  /\ \E r \in RemoteOutcomes :
       /\ evaluation' = [evaluation EXCEPT
                           !.remote = r,
                           !.outcome = race(@, r),
                           !.first = IF evaluation.timer = "armed" THEN "remote" ELSE @]
       /\ ret' = IF evaluation.outcome = "none"
                 THEN [op |-> "evaluateSettled", outcome |-> r] ELSE NoRet
  /\ UNCHANGED <<clientVars, call, closing, sessions, endpoint, health, capture,
                 dispatchVars, ringVars, fnVars, storeVars>>

\* The timer of evaluateExpression fires.
EvalTimerFires ==
  /\ evaluation.timer = "armed"
  /\ evaluation' = [evaluation EXCEPT
                      !.timer = "fired",
                      !.outcome = race(@, "timeout"),
                      !.first = IF evaluation.remote = "pending" THEN "timer" ELSE @]
  /\ ret' = IF evaluation.outcome = "none"
            THEN [op |-> "evaluateSettled", outcome |-> "timeout"] ELSE NoRet
  /\ UNCHANGED <<clientVars, call, closing, sessions, endpoint, health, capture,
                 dispatchVars, ringVars, fnVars, storeVars>>

\* The status getHealth returns on a probe that settles after all.
probeStatusMutant(resolved) == "healthy"

\* The status getHealth returns when Browser.getVersion() has settled.
probeStatus(resolved) == IF resolved THEN "healthy" ELSE "degraded"

\* getHealth(): without a session handle or without a target it returns at
\* once; otherwise it sends the probe to the session and waits.
GetHealth ==
  /\ health = NoProbe
  /\ IF client = NoClient \/ target = Undefined
     THEN /\ ret' = [op |-> "getHealth", outcome |-> "returned", probe |-> "none",
                     status |-> "disconnected"]
          /\ UNCHANGED health
     ELSE /\ health' = [pc |-> "probe", sid |-> client]
          /\ ret' = NoRet
  /\ UNCHANGED <<clientVars, call, closing, sessions, endpoint, evaluation, capture,
                 dispatchVars, ringVars, fnVars, storeVars>>

\* The probe settles: a closed session rejects it, an open one answers or
\* rejects; the catch block turns a rejection into 'degraded'.
GetHealthSettles ==
  /\ health.pc = "probe"
  /\ \E resolved \in IF sessions[health.sid].open THEN BOOLEAN ELSE {FALSE} :
       ret' = [op |-> "getHealth", outcome |-> "returned",
               probe |-> IF resolved THEN "resolved" ELSE "rejected",
               status |-> probeStatus(resolved)]
  /\ health' = NoProbe
  /\ UNCHANGED <<clientVars, call, closing, sessions, endpoint, evaluation, capture,
                 dispatchVars, ringVars, fnVars, storeVars>>

NextHealth ==
  \/ GetHealth
  \/ GetHealthSettles

\* The connection steps of an endpoint where nothing fails.
NextUp ==
  \/ \E c \in ConnectCalls :
       \/ ConnectStart(c)
       \/ DiscoverDone(c)
       \/ OpenDone(c)
       \/ EnableDone(c)
       \/ AttachDone(c)
  \/ DisconnectStart
  \/ DisconnectDone

NextEval ==
  \/ NextUp
  \/ EvaluateExpression
  \/ EvalRemoteSettles
  \/ EvalTimerFires

(***************************************************************************)
(* CDPClient: listeners and the session's events                           *)
(***************************************************************************)
NoDelivery == [kind |-> "none", counts |-> <<>>, threw |-> {}, bindings |-> 0, propagated |-> FALSE]

\* A handler loop without the try/catch: the first throw ends the loop and
\* leaves the handler.
RECURSIVE fanOutMutant(_, _, _)
fanOutMutant(listeners, throwers, i) ==
  IF i > Len(listeners) THEN [called |-> <<>>, propagated |-> FALSE]
  ELSE IF listeners[i] \in throwers
       THEN [called |-> <<1>> \o [j \in 1..(Len(listeners) - i) |-> 0], propagated |-> TRUE]
       ELSE LET rest == fanOutMutant(listeners, throwers, i + 1)
            IN [called |-> <<1>> \o rest.called, propagated |-> rest.propagated]

\* The handler that attachQueuedListeners binds, from listener i on:
\* for (const cb of listeners) { try { cb(event) } catch {} }.  `called`
\* says how often each listener was invoked, `propagated` whether an
\* exception left the handler.
RECURSIVE fanOut(_, _, _)
fanOut(listeners, throwers, i) ==
  IF i > Len(listeners) THEN [called |-> <<>>, propagated |-> FALSE]
  ELSE LET rest == fanOut(listeners, throwers, i + 1)
       IN IF listeners[i] \in throwers
          THEN [called |-> <<1>> \o rest.called, propagated |-> rest.propagated]
          ELSE [called |-> <<1>> \o rest.called, propagated |-> rest.propagated]

\* What the listeners see of one event on a stream with n handlers bound.
deliver(kind, listeners, throwers, n) ==
  LET once == fanOut(listeners, throwers, 1)
  IN [kind |-> kind,
      counts |-> [i \in DOMAIN listeners |-> n * once.called[i]],
      threw |-> throwers,
      bindings |-> n,
      propagated |-> n > 0 /\ once.propagated]

Range(seq) == {seq[i] : i \in DOMAIN seq}

\* attachQueuedListeners(): for each kind with a listener, one more handler
\* on the session's streams of that kind.
attachQueuedListeners(ss, cl, cons, net) ==
  IF cl = NoClient THEN ss
  ELSE [ss EXCEPT ![cl].consoleBindings = IF Len(cons) > 0 THEN @ + 1 ELSE @,
                  ![cl].networkBindings = IF Len(net) > 0 THEN @ + 1 ELSE @]

InitDispatch ==
  /\ consoleListeners = <<>>
  /\ networkListeners = <<>>
  /\ delivered = NoDelivery

\* onConsoleMessage(callback), with a callback not registered before.
OnConsoleMessage ==
  /\ Len(consoleListeners) < MaxListeners
  /\ consoleListeners' = Append(consoleListeners, Len(consoleListeners) + 1)
  /\ sessions' = attachQueuedListeners(sessions, client, consoleListeners', networkListeners)
  /\ ret' = [op |-> "onConsoleMessage"]
  /\ UNCHANGED <<clientVars, call, closing, endpoint, networkListeners, delivered,
                 evalVars, ringVars, fnVars, storeVars>>

\* onNetworkRequest(callback), with a callback not registered before.
OnNetworkRequest ==
  /\ Len(networkListeners) < MaxListeners
  /\ networkListeners' = Append(networkListeners, Len(networkListeners) + 1)
  /\ sessions' = attachQueuedListeners(sessions, client, consoleListeners, networkListeners')
  /\ ret' = [op |-> "onNetworkRequest"]
  /\ UNCHANGED <<clientVars, call, closing, endpoint, consoleListeners, delivered,
                 evalVars, ringVars, fnVars, storeVars>>

\* An open session with the Console domain enabled emits messageAdded:
\* every handler bound to the stream calls every console listener, and
\* any of the listeners may throw.
ConsoleEvent(sid) ==
  /\ sessions[sid].open
  /\ "Console" \in sessions[sid].enabled
  /\ \E throwers \in SUBSET Range(consoleListeners) :
       delivered' = deliver("console", consoleListeners, throwers, sessions[sid].consoleBindings)
  /\ ret' = [op |-> "event"]
  /\ UNCHANGED <<clientVars, call, closing, sessions, endpoint, consoleListeners,
                 networkListeners, evalVars, ringVars, fnVars, storeVars>>

\* An open session with the Network domain enabled emits one of its four
\* events: every handler bound to that stream calls every network listener.
NetworkEvent(sid) ==
  /\ sessions[sid].open
  /\ "Network" \in sessions[sid].enabled
  /\ \E throwers \in SUBSET Range(networkListeners) :
       delivered' = deliver("network", networkListeners, throwers, sessions[sid].networkBindings)
  /\ ret' = [op |-> "event"]
  /\ UNCHANGED <<clientVars, call, closing, sessions, endpoint, consoleListeners,
                 networkListeners, evalVars, ringVars, fnVars, storeVars>>

NextDispatch ==
  \/ NextUp
  \/ OnConsoleMessage
  \/ OnNetworkRequest
  \/ \E sid \in DOMAIN sessions : ConsoleEvent(sid)
  \/ \E sid \in DOMAIN sessions : NetworkEvent(sid)

IdleConn == InitConn /\ endpoint = "up" /\ InitEval /\ InitDispatch

(***************************************************************************)
(* MCPTools.setupCDPListeners: the listeners that feed the store           *)
(***************************************************************************)
HttpMethods == {"GET", "POST", "PUT", "DELETE", "PATCH", "OPTIONS", "HEAD"}

\* NetworkRequestSchema.parse accepts the input (it throws otherwise).
NetworkRequestValid(input) ==
  /\ input.url # <<>>
  /\ input.method \in HttpMethods
  /\ input.status # Undefined => input.status[1] \in 100..599
  /\ input.timestamp > 0
  /\ input.duration # Undefined => input.duration[1] >= 0

\* A record that is left in the state of its creation.
withStateMutant(data, state) ==
  [f \in (DOMAIN data) \cup {"state"} |-> IF f = "state" THEN "Created" ELSE data[f]]

\* { ...data, state }
withState(data, state) ==
  [f \in (DOMAIN data) \cup {"state"} |-> IF f = "state" THEN state ELSE data[f]]

createNetworkRequest(input) == withState(input, "Created")

\* requests.find((req) => req.requestId === requestId)
find(requests, requestId) ==
  LET Same(r) == r.requestId = requestId
      found == SelectSeq(requests, Same)
  IN IF found = <<>> THEN Undefined ELSE <<found[1]>>

NoOptions ==
  [count |-> Undefined, since |-> Undefined, method |-> Undefined,
   status |-> Undefined, domain |-> Undefined, level |-> Undefined]

\* A network listener that makes a record for an event whose request it
\* does not find.
networkListenerMutant(buffer, event, now) ==
  add(buffer, createNetworkRequest(
    [requestId |-> event.requestId, url |-> event.url, method |-> event.method,
     status |-> Undefined, timestamp |-> now, duration |-> Undefined,
     responseHeaders |-> Undefined, failed |-> FALSE]))

\* The callback given to onNetworkRequest, at time `now`.  Whatever throws
\* inside it is caught and logged, and the buffer stays as it is.  The
\* transitions start from a record just created, so they do not throw.
networkListener(buffer, event, now) ==
  IF event.type = "requestWillBeSent"
  THEN LET input == [requestId |-> event.requestId, url |-> event.url,
                     method |-> event.method, status |-> Undefined,
                     timestamp |-> now, duration |-> Undefined,
                     responseHeaders |-> Undefined, failed |-> FALSE]
       IN IF NetworkRequestValid(input)
          THEN addNetworkRequest(buffer, createNetworkRequest(input))
          ELSE buffer
  ELSE LET existingRequest ==
             find(queryNetworkRequests(buffer, NoOptions).requests, event.requestId)
       IN IF existingRequest = Undefined THEN buffer
          ELSE LET old == existingRequest[1]
                   elapsed == <<now - old.timestamp>>
                   input ==
                     CASE event.type = "responseReceived" ->
                            [old EXCEPT !.status = <<event.status>>,
                                        !.responseHeaders = <<event.headers>>]
                       [] event.type = "requestFinished" ->
                            [old EXCEPT !.duration = IF event.encodedDataLength # 0
                                                     THEN elapsed ELSE Undefined]
                       [] OTHER ->
                            [old EXCEPT !.failed = TRUE, !.duration = elapsed]
                   state ==
                     CASE event.type = "responseReceived" -> "Updated"
                       [] event.type = "requestFinished" -> "Completed"
                       [] OTHER -> "Failed"
               IN IF NetworkRequestValid(input)
                  THEN addNetworkRequest(buffer, withState(input, state))
                  ELSE buffer

\* A console listener that stores the entry without the parse of
\* createConsoleEntry.
consoleListenerMutant(buffer, message, now) ==
  addConsoleEntry(buffer, withState([level |-> "log", timestamp |-> now,
                                     message |-> message.text], "Buffered"))

\* The callback given to onConsoleMessage, at time `now`: the level is
\* mapped, an empty text fails ConsoleEntrySchema.parse, and the entry is
\* stored as Buffered.
consoleListener(buffer, message, now) ==
  LET level == CASE message.level = "warning" -> "warn"
                 [] message.level \in {"log", "error", "info", "debug"} -> message.level
                 [] OTHER -> "log"
      input == [level |-> level, timestamp |-> now, message |-> message.text]
  IN IF input.message # "" /\ input.timestamp > 0
     THEN addConsoleEntry(buffer, withState(input, "Buffered"))
     ELSE buffer

\* Date.now() does not run backwards: it is no earlier than any timestamp
\* in the buffer.
Clock(buffer) ==
  LET stored == getAll(buffer)
  IN {now \in 1..MaxTs : \A i \in 1..Len(stored) : stored[i].timestamp <= now}

\* The raw events of the session, about two requests: the four events of
\* a request, and a response with a status outside 100..599.
EventIds == {1, 2}

NetworkEvents ==
  {[type |-> e.type, requestId |-> id, url |-> HostOf(id), method |-> MethodOf(id),
    status |-> e.status, headers |-> "h", encodedDataLength |-> e.encodedDataLength] :
     id \in EventIds,
     e \in {[type |-> "requestWillBeSent", status |-> 0, encodedDataLength |-> 0],
            [type |-> "responseReceived", status |-> 200, encodedDataLength |-> 0],
            [type |-> "responseReceived", status |-> 0, encodedDataLength |-> 0],
            [type |-> "requestFinished", status |-> 0, encodedDataLength |-> 1],
            [type |-> "requestFinished", status |-> 0, encodedDataLength |-> 0],
            [type |-> "requestFailed", status |-> 0, encodedDataLength |-> 0]}}

\* Requests whose method or url NetworkRequestSchema refuses.
RefusedRequests ==
  {[type |-> "requestWillBeSent", requestId |-> id,
    url |-> IF e.url THEN HostOf(id) ELSE <<>>, method |-> e.method,
    status |-> 0, headers |-> "h", encodedDataLength |-> 0] :
     id \in EventIds,
     e \in {[url |-> TRUE, method |-> "PROPFIND"], [url |-> FALSE, method |-> "GET"]}}

ConsoleMessages == [level : {"warning", "error", "verbose"}, text : {"", "m"}]

\* The store given to MCPTools, of any configured capacity.
InitTools ==
  /\ consoleBuffer = CircularBuffer(ConsoleCap)
  /\ \E capacity \in 1..NetworkCap : networkBuffer = CircularBuffer(capacity)
  /\ lastQuery = NoQuery
  /\ focus \in {"console", "network"}

\* The console listener runs on a message of the session.
ToolsConsoleMessage ==
  /\ focus = "console"
  /\ \E message \in ConsoleMessages, now \in Clock(consoleBuffer) :
       /\ consoleBuffer' = consoleListener(consoleBuffer, message, now)
       /\ ret' = [op |-> "consoleMessage", message |-> message]
  /\ UNCHANGED <<networkBuffer, lastQuery, focus, ringVars, fnVars, clientVars, call, closing,
                 sessions, endpoint, evalVars, dispatchVars>>

\* The network listener runs on an event of the session.
ToolsNetworkEvent ==
  /\ focus = "network"
  /\ \E event \in NetworkEvents \cup RefusedRequests, now \in Clock(networkBuffer) :
       /\ networkBuffer' = networkListener(networkBuffer, event, now)
       /\ ret' = [op |-> "networkEvent", type |-> event.type, requestId |-> event.requestId,
                  event |-> event]
  /\ UNCHANGED <<consoleBuffer, lastQuery, focus, ringVars, fnVars, clientVars, call, closing,
                 sessions, endpoint, evalVars, dispatchVars>>

NextTools ==
  \/ ToolsConsoleMessage
  \/ ToolsNetworkEvent

(***************************************************************************)
(* Functions of the models, applied to arguments drawn at the start        *)
(***************************************************************************)
NoResult == [of |-> "none"]

IdleFn == fnArg = <<>> /\ fnResult = NoResult

\* Discovery answers: up to MaxTargets targets, each with one of the urls
\* of the model, attachable or not, identified by its place in the list.
TargetUrls == {"", "https://example.com", "http://localhost:3000/", "http://localhost:5173/"}

TargetLists(max) ==
  UNION {{[i \in 1..n |-> [id |-> i, url |-> kinds[i].url, canAttach |-> kinds[i].canAttach]] :
            kinds \in [1..n -> [url : TargetUrls, canAttach : BOOLEAN]]} :
         n \in 0..max}

InitSelect == fnArg \in TargetLists(MaxTargets) /\ fnResult = NoResult

SelectPriorityTarget ==
  /\ fnResult = NoResult
  /\ fnResult' = [of |-> "selectPriorityTarget", value |-> selectPriorityTarget(fnArg)]
  /\ UNCHANGED <<fnArg, notFnVars>>

NextSelect == SelectPriorityTarget

(***************************************************************************)
(* RuntimeEvaluation (models/runtime-evaluation.ts)                        *)
(***************************************************************************)
\* RuntimeEvaluationBaseSchema: the fields but result and error.
RuntimeEvaluationBaseSchema(value) == value.expression # "" /\ value.duration >= 0

\* A RuntimeEvaluationSchema without its superRefine.
RuntimeEvaluationSchemaMutant(value) == RuntimeEvaluationBaseSchema(value)

\* RuntimeEvaluationSchema, which isRuntimeEvaluation and
\* parseRuntimeEvaluation apply: the base schema and hasResult !== hasError.
RuntimeEvaluationSchema(value) ==
  /\ RuntimeEvaluationBaseSchema(value)
  /\ (value.result # Undefined) # (value.error # Undefined)

Returns(of, value) == [of |-> of, threw |-> FALSE, value |-> value]

Throws(of, value) == [of |-> of, threw |-> TRUE, value |-> value]

\* createRuntimeEvaluation parses with the base schema.
createRuntimeEvaluation(input) ==
  IF RuntimeEvaluationBaseSchema(input)
  THEN Returns("createRuntimeEvaluation", withState(input, "Created"))
  ELSE Throws("createRuntimeEvaluation", input)

toExecuted(e) ==
  IF e.state # "Created" THEN Throws("toExecuted", e)
  ELSE Returns("toExecuted", [e EXCEPT !.state = "Executed"])

\* A toCompleted that also accepts an evaluation that was not executed.
toEvaluationCompletedMutant(e) ==
  IF e.state \notin {"Created", "Executed"} THEN Throws("toCompleted", e)
  ELSE Returns("toCompleted", [e EXCEPT !.state = "Completed"])

toEvaluationCompleted(e) ==
  IF e.state # "Executed" THEN Throws("toCompleted", e)
  ELSE Returns("toCompleted", [e EXCEPT !.state = "Completed"])

toEvaluationFailed(e) ==
  IF e.state # "Executed" THEN Throws("toFailed", e)
  ELSE Returns("toFailed", [e EXCEPT !.state = "Failed"])

\* The values offered to the schema and to the constructor.
RuntimeEvaluationInputs ==
  [expression : {"", "1+1"}, duration : {-1, 0},
   result : Opt({"2", "null"}), error : Opt({"", "Boom"})]

InitRecord == fnArg \in RuntimeEvaluationInputs /\ fnResult = NoResult

\* RuntimeEvaluationSchema.parse, isRuntimeEvaluation or
\* parseRuntimeEvaluation on the value.
ValidateRuntimeEvaluation ==
  /\ fnResult = NoResult
  /\ fnResult' = IF RuntimeEvaluationSchema(fnArg)
                 THEN Returns("RuntimeEvaluationSchema", fnArg)
                 ELSE Throws("RuntimeEvaluationSchema", fnArg)
  /\ UNCHANGED <<fnArg, notFnVars>>

CreateRuntimeEvaluation ==
  /\ fnResult = NoResult
  /\ fnResult' = createRuntimeEvaluation(fnArg)
  /\ UNCHANGED <<fnArg, notFnVars>>

\* A transition function applied to the record at hand; when it throws the
\* record stays as it was.
HasEvaluation == fnResult # NoResult /\ "state" \in DOMAIN fnResult.value

ToExecuted ==
  /\ HasEvaluation
  /\ fnResult' = toExecuted(fnResult.value)
  /\ UNCHANGED <<fnArg, notFnVars>>

ToEvaluationCompleted ==
  /\ HasEvaluation
  /\ fnResult' = toEvaluationCompleted(fnResult.value)
  /\ UNCHANGED <<fnArg, notFnVars>>

ToEvaluationFailed ==
  /\ HasEvaluation
  /\ fnResult' = toEvaluationFailed(fnResult.value)
  /\ UNCHANGED <<fnArg, notFnVars>>

NextRecord ==
  \/ ValidateRuntimeEvaluation
  \/ CreateRuntimeEvaluation
  \/ ToExecuted
  \/ ToEvaluationCompleted
  \/ ToEvaluationFailed

(***************************************************************************)
(* MCPTools.handleRuntimeEval: the console output of an evaluation         *)
(***************************************************************************)
\* handleRuntimeEval up to its await, for an input that parses, a manager
\* with a target and an expression the denylist lets through: it empties
\* consoleOutputBuffer and calls evaluateExpression.
RuntimeEvalStart(e) ==
  /\ capture.evals[e].pc # "awaiting"
  /\ capture' = [capture EXCEPT
                   !.consoleOutputBuffer = <<>>,
                   !.evals[e] = [pc |-> "awaiting", emitted |-> <<>>, consoleOutput |-> <<>>]]
  /\ ret' = NoRet
  /\ UNCHANGED <<ringVars, fnVars, storeVars, clientVars, call, closing, sessions, endpoint,
                 evaluation, health, dispatchVars>>

\* The session emits a console message: the console listener of
\* setupCDPListeners gives the entry to the BufferManager.  No code appends
\* to consoleOutputBuffer.  `emitted` keeps, for each evaluation that is
\* awaited, the messages that make an entry.
CaptureConsoleMessage ==
  /\ \A e \in EvalCalls :
       capture.evals[e].pc = "awaiting" => Len(capture.evals[e].emitted) < MaxEmitted
  /\ \E message \in ConsoleMessages, now \in Clock(consoleBuffer) :
       /\ consoleBuffer' = consoleListener(consoleBuffer, message, now)
       /\ capture' = [capture EXCEPT
                        !.evals = [e \in EvalCalls |->
                                     IF @[e].pc = "awaiting" /\ message.text # ""
                                     THEN [@[e] EXCEPT !.emitted = Append(@, message)]
                                     ELSE @[e]]]
  /\ ret' = [op |-> "consoleMessage"]
  /\ UNCHANGED <<ringVars, fnVars, networkBuffer, lastQuery, focus, clientVars, call, closing,
                 sessions, endpoint, evaluation, health, dispatchVars>>

\* evaluateExpression settles, with a value, an exception, a rejection or
\* the timeout: on each path the response takes a copy of
\* consoleOutputBuffer as its consoleOutput.
RuntimeEvalSettles(e) ==
  /\ capture.evals[e].pc = "awaiting"
  /\ capture' = [capture EXCEPT
                   !.evals[e].pc = "done",
                   !.evals[e].consoleOutput = capture.consoleOutputBuffer]
  /\ ret' = [op |-> "cdp.runtime.eval", call |-> e]
  /\ UNCHANGED <<ringVars, fnVars, storeVars, clientVars, call, closing, sessions, endpoint,
                 evaluation, health, dispatchVars>>

NextCapture ==
  \/ \E e \in EvalCalls : RuntimeEvalStart(e)
  \/ CaptureConsoleMessage
  \/ \E e \in EvalCalls : RuntimeEvalSettles(e)

(***************************************************************************)
(* The runtime-eval tool: security validator, MCPTools.handleRuntimeEval   *)
(* and the CallTool handler of MCPServer                                   *)
(***************************************************************************)
\* An expression is the sequence of its tokens; the patterns of the
\* denylist are sequences of tokens that may be separated by white space.
DESTRUCTIVE_PATTERNS ==
  {<<"location", "=">>, <<"document", ".", "cookie", "=">>,
   <<"innerHTML", "=">>, <<"outerHTML", "=">>,
   <<"eval", "(">>, <<"new", "Function", "(">>, <<"XMLHttpRequest", "(">>,
   <<"fetch", "(">>, <<"navigator", ".", "sendBeacon", "(">>, <<"WebSocket", "(">>,
   <<"postMessage", "(">>, <<"window", ".", "close", "(">>}
  \cup {<<"location", ".", f, "(">> : f \in {"assign", "replace", "reload"}}
  \cup {<<"document", ".", f, "(">> : f \in {"write", "open"}}
  \cup {<<f, "(">> : f \in {"appendChild", "removeChild", "replaceChild", "insertBefore",
                            "remove", "append", "prepend"}}
  \cup {<<st, ".", f, "(">> : st \in {"localStorage", "sessionStorage"},
                               f \in {"setItem", "removeItem", "clear"}}

isExpressionSafe(expression) ==
  ~\E pattern \in DESTRUCTIVE_PATTERNS : includes(expression, pattern)

\* The catch block of handleRuntimeEval and the error property of its
\* response: toFailed on the evaluation with the error message.  toFailed
\* throws out of the handler when the evaluation is not Executed.
failEvaluation(e, message, sent) ==
  LET failed == toEvaluationFailed([e EXCEPT !.error = <<message>>])
  IN IF failed.threw
     THEN [threw |-> TRUE, message |-> "Invalid transition", sent |-> sent]
     ELSE [threw |-> FALSE, sent |-> sent,
           output |-> [result |-> Undefined, error |-> failed.value.error]]

\* MCPTools.handleRuntimeEval(args) with the manager's target `tgt`,
\* `connected` saying whether evaluateExpression finds a session handle and
\* `remote` how the evaluation settles.  `sent` says whether the expression
\* went to the browser session; `output` holds the result and error
\* properties given to JSON.stringify, which leaves out an undefined one.
handleRuntimeEval(expression, tgt, connected, remote) ==
  IF expression = <<>>
  THEN [threw |-> TRUE, message |-> "expression cannot be empty", sent |-> FALSE]
  ELSE IF tgt = Undefined
  THEN [threw |-> TRUE, message |-> "No browser target available", sent |-> FALSE]
  ELSE
    LET created == createRuntimeEvaluation(
                     [expression |-> expression, duration |-> 0,
                      result |-> Undefined, error |-> Undefined]).value
        executed == toExecuted(created).value
    IN IF ~isExpressionSafe(expression)
       THEN failEvaluation(created, "security violation", FALSE)
       ELSE IF ~connected
       THEN failEvaluation(executed, "CDP client not connected", FALSE)
       ELSE IF remote.kind = "timeout"
       THEN failEvaluation(executed, "Evaluation timeout", TRUE)
       ELSE IF remote.kind = "rejected"
       THEN failEvaluation(executed, "rejected", TRUE)
       ELSE LET done ==
                  IF remote.kind = "exception"
                  THEN toEvaluationFailed(
                         [executed EXCEPT !.error =
                            IF remote.value # Undefined /\ remote.value[1] # ""
                            THEN remote.value ELSE <<"Evaluation failed">>]).value
                  ELSE toEvaluationCompleted([executed EXCEPT !.result = remote.value]).value
            IN [threw |-> FALSE, sent |-> TRUE,
                output |-> [result |-> done.result, error |-> done.error]]

\* The CallTool handler of MCPServer for cdp.runtime.eval: when the tool
\* throws, the expression is given to eval() in the server, unless it is
\* empty; `localOutcome` is how that eval settles.  `evaluatedLocally` says
\* whether eval() ran.
callRuntimeEval(expression, tgt, connected, remote, localOutcome) ==
  LET tool == handleRuntimeEval(expression, tgt, connected, remote)
  IN IF ~tool.threw
     THEN [threw |-> FALSE, sent |-> tool.sent, evaluatedLocally |-> FALSE,
           output |-> tool.output]
     ELSE IF expression = <<>>
     THEN [threw |-> TRUE, sent |-> tool.sent, evaluatedLocally |-> FALSE,
           output |-> [result |-> Undefined, error |-> Undefined]]
     ELSE [threw |-> FALSE, sent |-> tool.sent, evaluatedLocally |-> TRUE,
           output |-> IF localOutcome.kind = "exception" /\ localOutcome.value # <<"">>
                      THEN [result |-> Undefined, error |-> localOutcome.value]
                      ELSE [result |-> IF localOutcome.kind = "exception"
                                       THEN Undefined ELSE localOutcome.value,
                            error |-> Undefined]]

\* How an evaluation settles: with a value, with undefined, with an
\* exception with or without a description, by rejection, by timeout.
EvalOutcomes ==
  {[kind |-> "value", value |-> <<"2">>], [kind |-> "value", value |-> Undefined],
   [kind |-> "exception", value |-> <<"ReferenceError">>],
   [kind |-> "exception", value |-> <<"">>],
   [kind |-> "rejected", value |-> Undefined], [kind |-> "timeout", value |-> Undefined]}

LocalOutcomes == {o \in EvalOutcomes : o.kind \in {"value", "exception"}}

Expressions == {<<>>, <<"1", "+", "1">>, <<"el", ".", "remove", "(", ")">>,
                <<"fetch", "(", "'/x'", ")">>}


(***************************************************************************)
(* The network buffer under addNetworkRequest with the records of a        *)
(* request's lifecycle                                                     *)
(***************************************************************************)
\* The records the lifecycle test adds for one request: created, then
\* updated with a later timestamp, then completed with status and duration.
LifecycleRequests ==
  {[requestId |-> id, url |-> HostOf(id), method |-> MethodOf(id), failed |-> FALSE,
    status |-> l.status, timestamp |-> l.timestamp, duration |-> l.duration,
    state |-> l.state] :
     id \in 1..NumIds,
     l \in {[state |-> "Created", timestamp |-> 1,
             status |-> Undefined, duration |-> Undefined],
            [state |-> "Updated", timestamp |-> MaxTs,
             status |-> Undefined, duration |-> Undefined],
            [state |-> "Completed", timestamp |-> MaxTs,
             status |-> <<200>>, duration |-> <<1>>]}}

InitRequests ==
  /\ consoleBuffer = CircularBuffer(ConsoleCap)
  /\ \E capacity \in 1..NetworkCap : networkBuffer = CircularBuffer(capacity)
  /\ lastQuery = NoQuery
  /\ focus = "network"

\* bm.addNetworkRequest(request); `previous` is the record of the same
\* request that the buffer held when the call was made.
RecordNetworkRequest ==
  /\ \E request \in LifecycleRequests :
       /\ networkBuffer' = addNetworkRequest(networkBuffer, request)
       /\ ret' = [op |-> "addNetworkRequest", request |-> request,
                  previous |-> find(getAll(networkBuffer), request.requestId)]
  /\ UNCHANGED <<consoleBuffer, lastQuery, focus, ringVars, fnVars, clientVars, call,
                 closing, sessions, endpoint, evalVars, dispatchVars>>

\* bm.clear()
ClearRequests ==
  /\ ret.op = "addNetworkRequest"
  /\ consoleBuffer' = clear(consoleBuffer)
  /\ networkBuffer' = clear(networkBuffer)
  /\ ret' = NoRet
  /\ UNCHANGED <<lastQuery, focus, ringVars, fnVars, clientVars, call,
                 closing, sessions, endpoint, evalVars, dispatchVars>>

NextRequests == RecordNetworkRequest \/ ClearRequests

(***************************************************************************)
(* MCPServer: the client, the store and the tail tools together            *)
(***************************************************************************)
\* ConsoleToolInputSchema.parse / NetworkToolInputSchema.parse: count takes
\* its default; the other options of the model are left out by the caller.
ConsoleToolInput(args) ==
  [NoOptions EXCEPT !.count = IF args.count = Undefined THEN <<50>> ELSE args.count]

NetworkToolInput(args) ==
  [NoOptions EXCEPT !.count = IF args.count = Undefined THEN <<20>> ELSE args.count]

\* A handleConsoleTail that answers with nothing when there is no target.
handleConsoleTailMutant(args, tgt, buffer) ==
  Returns("cdp.console.tail", [entries |-> <<>>, totalCount |-> 0, target |-> "local"])

\* count is an integer from 1 up to the maximum of the schema.
ToolInputValid(args, max) == args.count = Undefined \/ args.count[1] \in 1..max

handleConsoleTail(args, tgt, buffer) ==
  IF ~ToolInputValid(args, 1000) THEN Throws("cdp.console.tail", "ZodError")
  ELSE IF tgt = Undefined THEN Throws("cdp.console.tail", "No browser target available")
  ELSE LET result == queryConsoleEntries(buffer, ConsoleToolInput(args))
       IN Returns("cdp.console.tail",
                  [entries |-> result.entries, totalCount |-> result.totalCount,
                   target |-> tgt[1].id])

handleNetworkTail(args, tgt, buffer) ==
  IF ~ToolInputValid(args, 100) THEN Throws("cdp.network.tail", "ZodError")
  ELSE IF tgt = Undefined THEN Throws("cdp.network.tail", "No browser target available")
  ELSE LET result == queryNetworkRequests(buffer, NetworkToolInput(args))
       IN Returns("cdp.network.tail",
                  [requests |-> result.requests, totalCount |-> result.totalCount,
                   target |-> tgt[1].id])

\* The CallTool handler around a tail tool: what the tool returns, or the
\* empty answer about the target 'local' when the tool throws.
callTail(tool) ==
  IF ~tool.threw THEN tool.value
  ELSE IF tool.of = "cdp.console.tail"
  THEN [entries |-> <<>>, totalCount |-> 0, target |-> "local"]
  ELSE [requests |-> <<>>, totalCount |-> 0, target |-> "local"]

TailArgs == [count : Opt({1})]

\* After new MCPServer(): MCPTools has registered its console listener and
\* its network listener, the buffers are empty, connect() has not run.
InitServer ==
  /\ InitConn /\ endpoint = "up" /\ InitEval
  /\ consoleBuffer = CircularBuffer(ConsoleCap)
  /\ networkBuffer = CircularBuffer(NetworkCap)
  /\ lastQuery = NoQuery
  /\ focus \in {"console", "network"}
  /\ consoleListeners = <<1>>
  /\ networkListeners = <<1>>
  /\ delivered = NoDelivery

\* The listener run once by each of the n handlers bound to the stream.
RECURSIVE consoleHandlers(_, _, _, _)
consoleHandlers(buffer, message, now, n) ==
  IF n = 0 THEN buffer
  ELSE consoleHandlers(consoleListener(buffer, message, now), message, now, n - 1)

RECURSIVE networkHandlers(_, _, _, _)
networkHandlers(buffer, event, now, n) ==
  IF n = 0 THEN buffer
  ELSE networkHandlers(networkListener(buffer, event, now), event, now, n - 1)

\* An open session emits Console.messageAdded.
ServerConsoleMessage(sid) ==
  /\ focus = "console"
  /\ sessions[sid].open
  /\ "Console" \in sessions[sid].enabled
  /\ sessions[sid].consoleBindings > 0
  /\ \E message \in ConsoleMessages, now \in Clock(consoleBuffer) :
       consoleBuffer' = consoleHandlers(consoleBuffer, message, now,
                                        sessions[sid].consoleBindings)
  /\ ret' = [op |-> "consoleMessage"]
  /\ UNCHANGED <<networkBuffer, lastQuery, focus, ringVars, fnVars, clientVars, call, closing,
                 sessions, endpoint, evalVars, dispatchVars>>

\* An open session emits one of the four Network events.
ServerNetworkEvent(sid) ==
  /\ focus = "network"
  /\ sessions[sid].open
  /\ "Network" \in sessions[sid].enabled
  /\ sessions[sid].networkBindings > 0
  /\ \E event \in NetworkEvents, now \in Clock(networkBuffer) :
       /\ networkBuffer' = networkHandlers(networkBuffer, event, now,
                                            sessions[sid].networkBindings)
       /\ ret' = [op |-> "networkEvent", type |-> event.type, requestId |-> event.requestId]
  /\ UNCHANGED <<consoleBuffer, lastQuery, focus, ringVars, fnVars, clientVars, call, closing,
                 sessions, endpoint, evalVars, dispatchVars>>

\* A CallTool request for cdp.console.tail.
ConsoleTail ==
  /\ focus = "console"
  /\ \E args \in TailArgs :
       ret' = [op |-> "cdp.console.tail", options |-> ConsoleToolInput(args),
               response |-> callTail(handleConsoleTail(args, target, consoleBuffer))]
  /\ UNCHANGED <<storeVars, ringVars, fnVars, clientVars, call, closing,
                 sessions, endpoint, evalVars, dispatchVars>>

\* A CallTool request for cdp.network.tail.
NetworkTail ==
  /\ focus = "network"
  /\ \E args \in TailArgs :
       ret' = [op |-> "cdp.network.tail", options |-> NetworkToolInput(args),
               response |-> callTail(handleNetworkTail(args, target, networkBuffer))]
  /\ UNCHANGED <<storeVars, ringVars, fnVars, clientVars, call, closing,
                 sessions, endpoint, evalVars, dispatchVars>>

NextServer ==
  \/ NextUp
  \/ \E sid \in DOMAIN sessions : ServerConsoleMessage(sid)
  \/ \E sid \in DOMAIN sessions : ServerNetworkEvent(sid)
  \/ ConsoleTail
  \/ NetworkTail

(***************************************************************************)
(* The three tools called with arguments and a manager state drawn at the  *)
(* start                                                                   *)
(***************************************************************************)
RuntimeEvalCalls ==
  [expression : Expressions, target : Opt({"page"}), connected : BOOLEAN,
   remote : EvalOutcomes, localOutcome : LocalOutcomes, count : Opt({0, 1})]

InitEvalTool == fnArg \in RuntimeEvalCalls /\ fnResult = NoResult

\* getCurrentTarget() of the manager in the call.
CurrentTarget == IF fnArg.target = Undefined THEN Undefined ELSE <<[id |-> fnArg.target[1]]>>

\* `tool` is how the handler of MCPTools settles, `value` what the CallTool
\* handler of the server answers.
CallRuntimeEval ==
  /\ fnResult = NoResult
  /\ fnArg.count = Undefined
  /\ fnResult' = [of |-> "cdp.runtime.eval",
                  tool |-> handleRuntimeEval(fnArg.expression, fnArg.target, fnArg.connected,
                                             fnArg.remote),
                  value |-> callRuntimeEval(fnArg.expression, fnArg.target, fnArg.connected,
                                            fnArg.remote, fnArg.localOutcome)]
  /\ UNCHANGED <<fnArg, notFnVars>>

CallConsoleTail ==
  /\ fnResult = NoResult
  /\ LET tool == handleConsoleTail(fnArg, CurrentTarget, consoleBuffer)
     IN fnResult' = [of |-> "cdp.console.tail",
                     tool |-> [threw |-> tool.threw,
                               message |-> IF tool.threw THEN tool.value ELSE ""],
                     value |-> callTail(tool)]
  /\ UNCHANGED <<fnArg, notFnVars>>

CallNetworkTail ==
  /\ fnResult = NoResult
  /\ LET tool == handleNetworkTail(fnArg, CurrentTarget, networkBuffer)
     IN fnResult' = [of |-> "cdp.network.tail",
                     tool |-> [threw |-> tool.threw,
                               message |-> IF tool.threw THEN tool.value ELSE ""],
                     value |-> callTail(tool)]
  /\ UNCHANGED <<fnArg, notFnVars>>

NextEvalTool == CallRuntimeEval \/ CallConsoleTail \/ CallNetworkTail

(***************************************************************************)
(* The lifecycles of the four models: VALID_TRANSITIONS, isValidTransition *)
(* and the transition functions, applied again and again to an entity      *)
(***************************************************************************)
\* models/network-request.ts
requestIsValidTransition(from, to) ==
  to \in CASE from = "Created" -> {"Updated", "Failed"}
           [] from = "Updated" -> {"Completed", "Failed"}
           [] OTHER -> {}

requestToUpdated(r) ==
  IF r.state # "Created" THEN Throws("toUpdated", r)
  ELSE Returns("toUpdated", [r EXCEPT !.state = "Updated"])

requestToCompleted(r) ==
  IF r.state # "Updated" THEN Throws("toCompleted", r)
  ELSE Returns("toCompleted", [r EXCEPT !.state = "Completed"])

\* A toFailed that only refuses a request that has failed already.
requestToFailedMutant(r) ==
  IF r.state = "Failed" THEN Throws("toFailed", r)
  ELSE Returns("toFailed", [r EXCEPT !.state = "Failed"])

requestToFailed(r) ==
  IF r.state \notin {"Created", "Updated"} THEN Throws("toFailed", r)
  ELSE Returns("toFailed", [r EXCEPT !.state = "Failed"])

\* models/runtime-evaluation.ts
evaluationIsValidTransition(from, to) ==
  to \in CASE from = "Created" -> {"Executed"}
           [] from = "Executed" -> {"Completed", "Failed"}
           [] OTHER -> {}

\* models/browser-target.ts
targetIsValidTransition(from, to) ==
  to \in CASE from = "Discovered" -> {"Attached", "Detached"}
           [] from = "Attached" -> {"Active", "Detached"}
           [] from = "Active" -> {"Detached"}
           [] OTHER -> {}

targetToAttached(t) ==
  IF toAttachedThrows(<<t>>) THEN Throws("toAttached", t)
  ELSE Returns("toAttached", toAttached(<<t>>)[1])

targetToActive(t) ==
  IF toActiveThrows(<<t>>) THEN Throws("toActive", t)
  ELSE Returns("toActive", toActive(<<t>>)[1])

\* A toDetached that never refuses.
targetToDetachedMutant(t) == Returns("toDetached", [t EXCEPT !.state = "Detached"])

targetToDetached(t) ==
  IF t.state = "Detached" THEN Throws("toDetached", t)
  ELSE Returns("toDetached", [t EXCEPT !.state = "Detached"])

\* models/console-entry.ts
entryIsValidTransition(from, to) ==
  to \in CASE from = "Created" -> {"Buffered"}
           [] from = "Buffered" -> {"Streamed"}
           [] OTHER -> {}

consoleToBuffered(e) ==
  IF e.state # "Created" THEN Throws("toBuffered", e)
  ELSE Returns("toBuffered", [e EXCEPT !.state = "Buffered"])

\* A toStreamed that also accepts an entry that was not buffered.
consoleToStreamedMutant(e) ==
  IF e.state = "Streamed" THEN Throws("toStreamed", e)
  ELSE Returns("toStreamed", [e EXCEPT !.state = "Streamed"])

consoleToStreamed(e) ==
  IF e.state # "Buffered" THEN Throws("toStreamed", e)
  ELSE Returns("toStreamed", [e EXCEPT !.state = "Streamed"])

\* The entities as their constructors return them.
CreatedEntities ==
  {[kind |-> "NetworkRequest", value |-> r] :
     r \in {x \in LifecycleRequests : x.state = "Created"}}
  \cup {[kind |-> "RuntimeEvaluation", value |-> createRuntimeEvaluation(i).value] :
          i \in {x \in RuntimeEvaluationInputs : RuntimeEvaluationBaseSchema(x)}}
  \cup {[kind |-> "BrowserTarget", value |-> createBrowserTarget([id |-> id])] :
          id \in {"page", "worker"}}
  \cup {[kind |-> "ConsoleEntry",
         value |-> withState([level |-> l, timestamp |-> ts, message |-> "m"], "Created")] :
          l \in SampleLevels, ts \in 1..MaxTs}

TransitionFunctions(kind) ==
  CASE kind = "NetworkRequest" -> {"requestToUpdated", "requestToCompleted", "requestToFailed"}
    [] kind = "RuntimeEvaluation" -> {"evalToExecuted", "evalToCompleted", "evalToFailed"}
    [] kind = "BrowserTarget" -> {"targetToAttached", "targetToActive", "targetToDetached"}
    [] OTHER -> {"consoleToBuffered", "consoleToStreamed"}

applyTransition(fn, value) ==
  CASE fn = "requestToUpdated" -> requestToUpdated(value)
    [] fn = "requestToCompleted" -> requestToCompleted(value)
    [] fn = "requestToFailed" -> requestToFailed(value)
    [] fn = "evalToExecuted" -> toExecuted(value)
    [] fn = "evalToCompleted" -> toEvaluationCompleted(value)
    [] fn = "evalToFailed" -> toEvaluationFailed(value)
    [] fn = "targetToAttached" -> targetToAttached(value)
    [] fn = "targetToActive" -> targetToActive(value)
    [] fn = "targetToDetached" -> targetToDetached(value)
    [] fn = "consoleToBuffered" -> consoleToBuffered(value)
    [] OTHER -> consoleToStreamed(value)

InitLifecycle == fnArg \in CreatedEntities /\ fnResult = NoResult

\* A transition function of the entity's model is called on the entity: the
\* entity becomes what the function returns, or stays when it throws.
ApplyTransition ==
  /\ \E fn \in TransitionFunctions(fnArg.kind) :
       LET r == applyTransition(fn, fnArg.value)
       IN /\ fnResult' = [of |-> fn, threw |-> r.threw, from |-> fnArg.value.state]
          /\ fnArg' = IF r.threw THEN fnArg ELSE [fnArg EXCEPT !.value = r.value]
  /\ UNCHANGED notFnVars

NextLifecycle == ApplyTransition

(***************************************************************************)
(* Specifications                                                          *)
(***************************************************************************)
InitSpecRing == InitRing /\ IdleStore /\ IdleConn /\ IdleFn

SpecRing == InitSpecRing /\ [][NextRing]_vars

InitSpecStore == IdleRing /\ InitStore /\ IdleConn /\ IdleFn

InitSpecConn ==
  IdleRing /\ IdleStore /\ InitConn /\ endpoint \in {"down", "flaky"} /\ InitEval /\ InitDispatch
  /\ IdleFn

SpecConn == InitSpecConn /\ [][NextConn]_vars

InitSpecConcurrent ==
  IdleRing /\ IdleStore /\ InitConcurrent /\ endpoint = "up" /\ InitEval /\ InitDispatch
  /\ IdleFn

SpecConcurrent == InitSpecConcurrent /\ [][NextConcurrent]_vars

InitSpecEval == IdleRing /\ IdleStore /\ IdleConn /\ IdleFn

SpecEval == InitSpecEval /\ [][NextEval]_vars

InitSpecCapture == IdleRing /\ IdleStore /\ IdleConn /\ IdleFn

SpecCapture == InitSpecCapture /\ [][NextCapture]_vars

\* The promises that connect() and disconnect() await settle; nobody is
\* obliged to call connect() or disconnect().
SpecLoss == InitSpecEval /\ [][NextLoss]_vars /\ WF_vars(Settles)

InitSpecDispatch == IdleRing /\ IdleStore /\ IdleConn /\ IdleFn

InitSpecSelect == IdleRing /\ IdleStore /\ IdleConn /\ InitSelect

SpecSelect == InitSpecSelect /\ [][NextSelect]_vars

InitSpecRecord == IdleRing /\ IdleStore /\ IdleConn /\ InitRecord

SpecRecord == InitSpecRecord /\ [][NextRecord]_vars

InitSpecEvalTool == IdleRing /\ IdleStore /\ IdleConn /\ InitEvalTool

SpecEvalTool == InitSpecEvalTool /\ [][NextEvalTool]_vars

InitSpecRequests ==
  /\ IdleRing /\ IdleFn /\ InitRequests
  /\ InitConn /\ endpoint = "up" /\ InitEval /\ InitDispatch

SpecRequests == InitSpecRequests /\ [][NextRequests]_vars

InitSpecServer == IdleRing /\ IdleFn /\ InitServer

SpecServer == InitSpecServer /\ [][NextServer]_vars

NextSpecHealth == NextUp \/ NextHealth

SpecHealth == InitSpecEval /\ [][NextSpecHealth]_vars

InitSpecLifecycle == IdleRing /\ IdleStore /\ IdleConn /\ InitLifecycle

SpecLifecycle == InitSpecLifecycle /\ [][NextLifecycle]_vars

InitSpecTools == IdleRing /\ InitTools /\ IdleConn /\ IdleFn

SpecTools == InitSpecTools /\ [][NextTools]_vars

SpecDispatch == InitSpecDispatch /\ [][NextDispatch]_vars

SpecStore == InitSpecStore /\ [][NextStore]_vars

(***************************************************************************)
(* What the claims speak of, stated without the operations above: the      *)
(* stored items oldest first, the filters as one conjunction over the      *)
(* options that were supplied, the ascending order by rank, the last n.    *)
(***************************************************************************)
Min(a, b) == IF a < b THEN a ELSE b

Supplied(opt) == opt # Undefined

ConsoleMatch(e, o) ==
  /\ Supplied(o.level) => e.level = o.level[1]
  /\ Supplied(o.since) => e.timestamp >= o.since[1]

NetworkMatch(r, o) ==
  /\ Supplied(o.method) => r.method = o.method[1]
  /\ Supplied(o.status) => r.status = o.status
  /\ Supplied(o.domain) => includes(r.url, o.domain[1])
  /\ Supplied(o.since) => r.timestamp >= o.since[1]

MatchingConsole(o) ==
  LET Keep(e) == ConsoleMatch(e, o) IN SelectSeq(getAll(consoleBuffer), Keep)

MatchingNetwork(o) ==
  LET Keep(r) == NetworkMatch(r, o) IN SelectSeq(getAll(networkBuffer), Keep)

\* The place of F[i] in ascending timestamp order, equal timestamps in
\* the order of F.
Rank(F, i) ==
  1 + Cardinality({j \in 1..Len(F) :
        \/ F[j].timestamp < F[i].timestamp
        \/ F[j].timestamp = F[i].timestamp /\ j < i})

Ascending(F) == [k \in 1..Len(F) |-> F[CHOOSE i \in 1..Len(F) : Rank(F, i) = k]]

LastN(s, n) == [k \in 1..Min(n, Len(s)) |-> s[Len(s) - Min(n, Len(s)) + k]]

WithoutState(s) ==
  [k \in 1..Len(s) |-> [f \in (DOMAIN s[k]) \ {"state"} |-> s[k][f]]]

Returned(q) == IF q.kind = "console" THEN q.result.entries ELSE q.result.requests

Matching(q) ==
  IF q.kind = "console" THEN MatchingConsole(q.options) ELSE MatchingNetwork(q.options)

Wrapped(b) == size(b) = b.capacity /\ b.nextIndex = 1

(***************************************************************************)
(* C1: in every reachable state of the store no two records of the network *)
(* buffer have the same requestId, also after the buffer has wrapped.      *)
(***************************************************************************)
C1_UniqueRequestIds ==
  \A i, j \in DOMAIN networkBuffer.items :
    (/\ i # j
     /\ networkBuffer.items[i] # Undefined
     /\ networkBuffer.items[j] # Undefined)
    => networkBuffer.items[i][1].requestId # networkBuffer.items[j][1].requestId

\* The buffer is full and has overwritten its oldest record, and holds a
\* record that replaced an earlier one of the same request.
C1_Witness ==
  /\ Wrapped(networkBuffer)
  /\ \E i \in DOMAIN networkBuffer.items :
       networkBuffer.items[i][1].state = "Completed"

(***************************************************************************)
(* C2: for a capacity N >= 1, after M > N adds with no clear and no        *)
(* replaceFirst in between, getAll() is exactly the last N added items,    *)
(* oldest first.                                                           *)
(***************************************************************************)
C2_LastNAdded ==
  (ringClean /\ Len(ringHist) > ring.capacity)
  => getAll(ring) = SubSeq(ringHist, Len(ringHist) - ring.capacity + 1, Len(ringHist))

C2_Witness ==
  /\ ringClean
  /\ ring.capacity >= 2
  /\ Len(ringHist) > ring.capacity + 1
  /\ ring.nextIndex # 0

(***************************************************************************)
(* C3: a query with count = c >= 1 reports as totalCount the number of     *)
(* buffered items that match the filters, whatever c is, and returns the   *)
(* last min(c, totalCount) items of the matching items in ascending       *)
(* timestamp order.                                                        *)
(***************************************************************************)
C3_CountLimit ==
  (/\ lastQuery.kind \in {"console", "network"}
   /\ Supplied(lastQuery.options.count)
   /\ lastQuery.options.count[1] >= 1)
  => /\ lastQuery.result.totalCount = Len(Matching(lastQuery))
     /\ Returned(lastQuery) =
          WithoutState(LastN(Ascending(Matching(lastQuery)), lastQuery.options.count[1]))

\* A filtered network query whose count cuts the matching records short, on
\* a buffer whose storage order is not the timestamp order.
C3_Witness ==
  /\ lastQuery.kind = "network"
  /\ Supplied(lastQuery.options.count)
  /\ Supplied(lastQuery.options.method)
  /\ lastQuery.result.totalCount > lastQuery.options.count[1]
  /\ Len(lastQuery.result.requests) = lastQuery.options.count[1]
  /\ getAll(networkBuffer) # Ascending(getAll(networkBuffer))

(***************************************************************************)
(* C4: a query with no count returns exactly the buffered items that       *)
(* satisfy all the supplied filters, in ascending timestamp order; on the  *)
(* console levels info, error, error, log, error at timestamps 10, 20, 30, *)
(* 40, 50 the filter level = error yields 20, 30, 50 and the filter        *)
(* since = 30 yields 30, 40, 50.                                           *)
(***************************************************************************)
ExampleLevels == <<"info", "error", "error", "log", "error">>

RECURSIVE ExampleBuffer(_)
ExampleBuffer(n) ==
  IF n = 0 THEN CircularBuffer(10)
  ELSE addConsoleEntry(ExampleBuffer(n - 1),
         [level |-> ExampleLevels[n], timestamp |-> 10 * n, state |-> "Buffered"])

ExampleTimestamps(options) ==
  LET r == queryConsoleEntries(ExampleBuffer(5), options)
  IN [k \in 1..Len(r.entries) |-> r.entries[k].timestamp]

C4_AllFilters ==
  /\ (lastQuery.kind \in {"console", "network"} /\ ~Supplied(lastQuery.options.count))
     => /\ Returned(lastQuery) = WithoutState(Ascending(Matching(lastQuery)))
        /\ lastQuery.result.totalCount = Len(Returned(lastQuery))
  /\ ExampleTimestamps([count |-> Undefined, since |-> Undefined, level |-> <<"error">>])
       = <<20, 30, 50>>
  /\ ExampleTimestamps([count |-> Undefined, since |-> <<30>>, level |-> Undefined])
       = <<30, 40, 50>>

\* A console query with both filters supplied that keeps one entry and
\* drops another, on a full buffer.
C4_Witness ==
  /\ lastQuery.kind = "console"
  /\ ~Supplied(lastQuery.options.count)
  /\ Supplied(lastQuery.options.level)
  /\ Supplied(lastQuery.options.since)
  /\ lastQuery.options.since[1] > 0
  /\ size(consoleBuffer) = ConsoleCap
  /\ Len(lastQuery.result.entries) = 1


(***************************************************************************)
(* Connection manager: claims                                              *)
(***************************************************************************)
Quiescent == \A c \in ConnectCalls : call[c].pc = "idle"

ConnectReturned == ret.op = "connect" /\ ret.outcome = "returned"

ConnectRaised == ret.op = "connect" /\ ret.outcome = "raised"

DisconnectReturned == ret.op = "disconnect"

\* C5: against an endpoint whose discovery always fails, a connect() makes
\* exactly MaxReconnectAttempts (3) attempts, waits D and then 2D between
\* them, and then raises one error that names the number of attempts made.
C5_ThreeAttempts ==
  endpoint = "down" =>
    \A c \in ConnectCalls :
      /\ call[c].tries <= MaxReconnectAttempts
      /\ (ConnectRaised /\ ret.call = c) =>
           /\ call[c].tries = MaxReconnectAttempts
           /\ call[c].waits = <<1, 2>>
           /\ ret.named = call[c].tries

\* C6: whenever connect() returns without raising, the session of the handle
\* is open with the four domains enabled, the target is Active and the retry
\* counter is 0.
C6_ConnectPostcondition ==
  ConnectReturned =>
    /\ client # NoClient
    /\ sessions[client].open
    /\ sessions[client].enabled = Domains
    /\ target # Undefined
    /\ target[1].state = "Active"
    /\ reconnectAttempts = 0

\* C7: once disconnect() returns on a manager with no connect() in progress
\* (connected, never connected, or after a failed or exhausted connect), the
\* manager holds no session handle, no target, and a retry counter of 0.
C7_DisconnectClears ==
  (DisconnectReturned /\ Quiescent) =>
    /\ client = NoClient
    /\ target = Undefined
    /\ reconnectAttempts = 0


(***************************************************************************)
(* evaluateExpression: claims                                              *)
(***************************************************************************)
FirstSettlementDecides ==
  /\ evaluation.first = "timer" => evaluation.outcome = "timeout"
  /\ evaluation.first = "remote" => evaluation.outcome = evaluation.remote

\* The step in which the loser of a decided race settles.
LoserSettles ==
  /\ evaluation.outcome # "none"
  /\ \/ evaluation.timer = "armed" /\ evaluation'.timer = "fired"
     \/ evaluation.remote = "pending" /\ evaluation'.remote \in RemoteOutcomes

\* C8: on a connected client the caller's outcome is the first settlement,
\* the timeout error when the timer fires first and the remote outcome
\* otherwise; the loser's later settlement changes neither that outcome nor
\* the manager nor the store.
C8_FirstSettlementWins ==
  [][/\ FirstSettlementDecides'
     /\ LoserSettles =>
          /\ evaluation'.outcome = evaluation.outcome
          /\ ret' = NoRet
          /\ UNCHANGED <<clientVars, call, closing, sessions, storeVars, dispatchVars>>]_vars

C8_Witness ==
  /\ evaluation.first = "timer"
  /\ evaluation.outcome = "timeout"
  /\ evaluation.remote = "value"

\* C9: without a session handle evaluateExpression fails at once with the
\* not-connected error; it issues no remote call, starts no timer and
\* changes no manager state.
C9_NotConnected ==
  [][(client = NoClient /\ ret'.op = "evaluateExpression") =>
       /\ ret'.outcome = "notConnected"
       /\ UNCHANGED <<evaluation, clientVars, call, closing, sessions, storeVars, dispatchVars>>]_vars

C9_Witness ==
  /\ ret.op = "evaluateExpression"
  /\ ret.outcome = "notConnected"
  /\ client = NoClient
  /\ evaluation.outcome = "value"
  /\ sessions # <<>>

(***************************************************************************)
(* Listeners and events: claims                                            *)
(***************************************************************************)
\* C10: each event a session emits is delivered to each registered listener
\* exactly once, whatever the order of registrations and connects, and no
\* session stream carries more than one binding.
C10_ExactlyOnce ==
  /\ ret.op = "event" => \A i \in DOMAIN delivered.counts : delivered.counts[i] = 1
  /\ \A sid \in DOMAIN sessions :
       sessions[sid].consoleBindings <= 1 /\ sessions[sid].networkBindings <= 1


\* C11: when a listener throws while handling an event, every other
\* registered listener of that kind still receives the event, once per
\* handler bound to the stream, and no exception leaves the handler.
C11_ListenerIsolation ==
  (ret.op = "event" /\ delivered.threw # {}) =>
    /\ ~delivered.propagated
    /\ \A i \in DOMAIN delivered.counts :
         delivered.counts[i] = delivered.bindings

C11_Witness ==
  /\ ret.op = "event"
  /\ delivered.kind = "console"
  /\ delivered.threw = {1}
  /\ delivered.bindings = 1
  /\ Len(delivered.counts) = MaxListeners
  /\ delivered.counts[MaxListeners] = 1


(***************************************************************************)
(* The listeners of MCPTools: claims                                       *)
(***************************************************************************)
HasRecord(buffer, requestId) ==
  \E i \in 1..Len(getAll(buffer)) : getAll(buffer)[i].requestId = requestId

\* C12: a responseReceived, requestFinished or requestFailed event whose
\* requestId has no record in the network buffer leaves both buffers
\* unchanged.
C12_UnknownRequestDropped ==
  [][(/\ ret'.op = "networkEvent"
      /\ ret'.type # "requestWillBeSent"
      /\ ~HasRecord(networkBuffer, ret'.requestId))
     => UNCHANGED <<consoleBuffer, networkBuffer>>]_vars

\* An event for a request that is not in the full buffer.
C12_Witness ==
  /\ ret.op = "networkEvent"
  /\ ret.type = "requestFinished"
  /\ ~HasRecord(networkBuffer, ret.requestId)
  /\ size(networkBuffer) = getCapacity(networkBuffer)


(***************************************************************************)
(* Target selection: claims                                                *)
(***************************************************************************)
IsLocal(t) == URL(t.url) # Undefined /\ URL(t.url)[1].hostname = "localhost"

IsLocal5173(t) == IsLocal(t) /\ URL(t.url)[1].port = "5173"

\* The first target of the list in the set, or none.
FirstIn(targets, S) ==
  IF \E i \in DOMAIN targets : targets[i] \in S
  THEN <<targets[CHOOSE i \in DOMAIN targets :
                   targets[i] \in S /\ \A j \in 1..(i - 1) : targets[j] \notin S]>>
  ELSE Undefined

\* C13: selectPriorityTarget returns the first attachable localhost:5173
\* target if there is one, else the first attachable localhost target, else
\* the first attachable target, and none exactly when nothing is attachable.
C13_PrioritySelection ==
  fnResult.of = "selectPriorityTarget" =>
    LET all == {fnArg[i] : i \in DOMAIN fnArg}
        attachable == {t \in all : t.canAttach}
        local == {t \in attachable : IsLocal(t)}
        local5173 == {t \in attachable : IsLocal5173(t)}
    IN /\ fnResult.value =
            (IF local5173 # {} THEN FirstIn(fnArg, local5173)
             ELSE IF local # {} THEN FirstIn(fnArg, local)
             ELSE FirstIn(fnArg, attachable))
       /\ fnResult.value = Undefined <=> attachable = {}
       /\ fnResult.value # Undefined => fnResult.value[1].canAttach

\* The list of the unit test: A elsewhere, B on localhost:3000, C on
\* localhost:5173, D on localhost:5173 and not attachable; C is selected.
C13_Witness ==
  /\ fnResult.of = "selectPriorityTarget"
  /\ fnArg = <<[id |-> 1, url |-> "https://example.com", canAttach |-> TRUE],
               [id |-> 2, url |-> "http://localhost:3000/", canAttach |-> TRUE],
               [id |-> 3, url |-> "http://localhost:5173/", canAttach |-> TRUE],
               [id |-> 4, url |-> "http://localhost:5173/", canAttach |-> FALSE]>>
  /\ fnResult.value[1].id = 3


(***************************************************************************)
(* RuntimeEvaluation: claims                                               *)
(***************************************************************************)
HasResult(e) == e.result # Undefined

HasError(e) == e.error # Undefined

\* C14: every record that createRuntimeEvaluation and the transition
\* functions produce has a result and no error when Completed, an error and
\* no result when Failed, and neither when Created or Executed.
C14_StateDeterminesFields ==
  HasEvaluation =>
    LET e == fnResult.value
    IN /\ e.state = "Completed" => HasResult(e) /\ ~HasError(e)
       /\ e.state = "Failed" => HasError(e) /\ ~HasResult(e)
       /\ e.state \in {"Created", "Executed"} => ~HasResult(e) /\ ~HasError(e)

Validated == fnResult.of \in {"RuntimeEvaluationSchema", "createRuntimeEvaluation"}

RuntimeEvalAnswered == fnResult.of = "cdp.runtime.eval" /\ ~fnResult.value.threw

\* C16: every response of the runtime-eval tool has exactly one of result
\* and error in its serialized output, whatever the remote outcome, a
\* successful evaluation to undefined included.
C16_ExactlyOneOfResultError ==
  RuntimeEvalAnswered =>
    (fnResult.value.output.result # Undefined) # (fnResult.value.output.error # Undefined)

\* C17: an expression that matches the denylist is never evaluated: it is
\* neither sent to the browser session nor evaluated by the server.
C17_BlockedNeverEvaluated ==
  (fnResult.of = "cdp.runtime.eval" /\ ~isExpressionSafe(fnArg.expression)) =>
    /\ ~fnResult.value.sent
    /\ ~fnResult.value.evaluatedLocally


(***************************************************************************)
(* addNetworkRequest: claims                                               *)
(***************************************************************************)
Added == ret.op = "addNetworkRequest"

\* C18: an addNetworkRequest whose replaceFirst matches a record leaves
\* size() as it was; one that matches none adds the record, and size() is
\* then larger by one if the buffer was not full and the capacity if it was.
C18_SizeAfterAdd ==
  [][ret'.op = "addNetworkRequest" =>
       IF HasRecord(networkBuffer, ret'.request.requestId)
       THEN size(networkBuffer') = size(networkBuffer)
       ELSE IF size(networkBuffer) < getCapacity(networkBuffer)
       THEN size(networkBuffer') = size(networkBuffer) + 1
       ELSE size(networkBuffer') = getCapacity(networkBuffer)]_vars

\* A record has just been replaced in a buffer that is full and has
\* overwritten its oldest record before.
C18_Witness ==
  /\ Added
  /\ ret.previous # Undefined
  /\ Wrapped(networkBuffer)

RecordsOf(requestId) ==
  LET Same(r) == r.requestId = requestId
  IN SelectSeq(queryNetworkRequests(networkBuffer, NoOptions).requests, Same)

\* C19: right after addNetworkRequest(r) the unfiltered query returns exactly
\* one record with r.requestId, and it is r without its state; so after the
\* Created, Updated and Completed records of one request there is one record
\* with the status and duration of the Completed one.
C19_OneRecordPerRequest ==
  Added =>
    /\ Len(RecordsOf(ret.request.requestId)) = 1
    /\ RecordsOf(ret.request.requestId)[1]
         = [f \in (DOMAIN ret.request) \ {"state"} |-> ret.request[f]]
    /\ ret.request.state = "Completed" =>
         /\ RecordsOf(ret.request.requestId)[1].status = <<200>>
         /\ RecordsOf(ret.request.requestId)[1].duration = <<1>>

\* The Completed record of a request has just replaced its Updated record,
\* next to the record of another request.
C19_Witness ==
  /\ Added
  /\ ret.request.state = "Completed"
  /\ ret.previous # Undefined
  /\ ret.previous[1].state = "Updated"
  /\ size(networkBuffer) = 2


(***************************************************************************)
(* The tail tools after a disconnect                                       *)
(***************************************************************************)
\* C20: while no session is open, after a disconnect included, a
\* console-tail or network-tail call returns the entries that the buffer
\* holds: disconnecting neither clears nor hides them.
C20_TailServesBufferedData ==
  /\ (ret.op = "cdp.console.tail" /\ client = NoClient) =>
       ret.response.entries = queryConsoleEntries(consoleBuffer, ret.options).entries
  /\ (ret.op = "cdp.network.tail" /\ client = NoClient) =>
       ret.response.requests = queryNetworkRequests(networkBuffer, ret.options).requests


(***************************************************************************)
(* Tool calls without a target                                             *)
(***************************************************************************)
ToolNames == {"cdp.console.tail", "cdp.network.tail", "cdp.runtime.eval"}

\* The arguments of the call pass the input schema of the tool.
InputAccepted(of) ==
  IF of = "cdp.runtime.eval" THEN fnArg.expression # <<>>
  ELSE ToolInputValid(fnArg, IF of = "cdp.console.tail" THEN 1000 ELSE 100)

RejectsForNoTarget ==
  /\ fnResult'.tool.threw
  /\ fnResult'.tool.message = "No browser target available"
  /\ UNCHANGED <<storeVars, connVars>>

\* C21 as stated: without a current target each of the three handlers
\* rejects with 'No browser target available' and changes neither the
\* buffers nor the connection state.
C21_NoTargetRejects ==
  [][(fnResult'.of \in ToolNames /\ fnArg.target = Undefined) => RejectsForNoTarget]_vars

\* C21: the same for calls whose arguments pass the input schema of the
\* tool, which is parsed before the target is looked at.
C21_NoTargetRejectsValidInput ==
  [][(/\ fnResult'.of \in ToolNames
      /\ fnArg.target = Undefined
      /\ InputAccepted(fnResult'.of))
     => RejectsForNoTarget]_vars

C21_Witness ==
  /\ fnResult.of = "cdp.console.tail"
  /\ fnArg.target = Undefined
  /\ fnArg.count = <<1>>
  /\ fnResult.tool.threw


(***************************************************************************)
(* getHealth: claims                                                       *)
(***************************************************************************)
\* C22: getHealth never raises; it returns 'disconnected' at once when the
\* manager has no session handle or no target, and otherwise 'healthy' when
\* the probe succeeds and 'degraded' when it fails; no step of it changes
\* the manager, the sessions or the buffers.
C22_HealthNeverRaises ==
  [][/\ ret'.op = "getHealth" =>
          /\ ret'.outcome = "returned"
          /\ (health = NoProbe) = (ret'.status = "disconnected")
          /\ (health = NoProbe) => (client = NoClient \/ target = Undefined)
          /\ ret'.probe = "resolved" => ret'.status = "healthy"
          /\ ret'.probe = "rejected" => ret'.status = "degraded"
          /\ ret'.status \in {"disconnected", "healthy", "degraded"}
     /\ (health = NoProbe /\ health' # NoProbe) => (client # NoClient /\ target # Undefined)
     /\ (ret'.op = "getHealth" \/ health' # health) =>
          UNCHANGED <<clientVars, call, closing, sessions, storeVars, dispatchVars>>]_vars

\* A probe of a session that a disconnect() has closed meanwhile is
\* answered with 'degraded'.
C22_Witness ==
  /\ ret.op = "getHealth"
  /\ ret.status = "degraded"
  /\ client = NoClient


(***************************************************************************)
(* Lifecycles: claims                                                      *)
(***************************************************************************)
\* The last call was fn: it returned exactly when the entity was in one of
\* the states `sources`, and the entity is then in the state `to`.
OnlyFrom(fn, sources, to) ==
  fnResult.of = fn =>
    /\ fnResult.threw = (fnResult.from \notin sources)
    /\ fnArg.value.state = IF fnResult.threw THEN fnResult.from ELSE to

RequestStates == {"Created", "Updated", "Completed", "Failed"}

\* C23: for a NetworkRequest toUpdated returns only from Created,
\* toCompleted only from Updated, toFailed only from Created or Updated,
\* every function throws from Completed and from Failed, and
\* isValidTransition is true for exactly these edges.
C23_RequestTransitions ==
  /\ OnlyFrom("requestToUpdated", {"Created"}, "Updated")
  /\ OnlyFrom("requestToCompleted", {"Updated"}, "Completed")
  /\ OnlyFrom("requestToFailed", {"Created", "Updated"}, "Failed")
  /\ (fnArg.kind = "NetworkRequest" /\ fnResult # NoResult
        /\ fnResult.from \in {"Completed", "Failed"}) => fnResult.threw
  /\ {e \in RequestStates \X RequestStates : requestIsValidTransition(e[1], e[2])}
       = {<<"Created", "Updated">>, <<"Updated", "Completed">>,
          <<"Created", "Failed">>, <<"Updated", "Failed">>}

C23_Witness ==
  /\ fnResult.of = "requestToFailed"
  /\ fnResult.from = "Completed"
  /\ fnResult.threw

EvaluationStates == {"Created", "Executed", "Completed", "Failed"}

\* C24: for a RuntimeEvaluation toExecuted returns only from Created,
\* toCompleted and toFailed only from Executed, every function throws from
\* Completed and from Failed, and isValidTransition is true for exactly
\* these edges.
C24_EvaluationTransitions ==
  /\ OnlyFrom("evalToExecuted", {"Created"}, "Executed")
  /\ OnlyFrom("evalToCompleted", {"Executed"}, "Completed")
  /\ OnlyFrom("evalToFailed", {"Executed"}, "Failed")
  /\ (fnArg.kind = "RuntimeEvaluation" /\ fnResult # NoResult
        /\ fnResult.from \in {"Completed", "Failed"}) => fnResult.threw
  /\ {e \in EvaluationStates \X EvaluationStates : evaluationIsValidTransition(e[1], e[2])}
       = {<<"Created", "Executed">>, <<"Executed", "Completed">>,
          <<"Executed", "Failed">>}

C24_Witness ==
  /\ fnResult.of = "evalToCompleted"
  /\ fnResult.from = "Created"
  /\ fnResult.threw

TargetStates == {"Discovered", "Attached", "Active", "Detached"}

\* C25 as stated: the legal edges of a BrowserTarget are Discovered to
\* Attached, Attached to Active, Active to Detached and Discovered to
\* Detached, and the functions throw on every other pair.
C25_FourEdges ==
  /\ OnlyFrom("targetToAttached", {"Discovered"}, "Attached")
  /\ OnlyFrom("targetToActive", {"Attached"}, "Active")
  /\ OnlyFrom("targetToDetached", {"Discovered", "Active"}, "Detached")
  /\ {e \in TargetStates \X TargetStates : targetIsValidTransition(e[1], e[2])}
       = {<<"Discovered", "Attached">>, <<"Attached", "Active">>,
          <<"Active", "Detached">>, <<"Discovered", "Detached">>}

\* C25: the legal edges are those four and Attached to Detached; the
\* functions throw on every other pair, every one out of Detached included.
C25_FiveEdges ==
  /\ OnlyFrom("targetToAttached", {"Discovered"}, "Attached")
  /\ OnlyFrom("targetToActive", {"Attached"}, "Active")
  /\ OnlyFrom("targetToDetached", {"Discovered", "Attached", "Active"}, "Detached")
  /\ (fnArg.kind = "BrowserTarget" /\ fnResult # NoResult /\ fnResult.from = "Detached")
       => fnResult.threw
  /\ {e \in TargetStates \X TargetStates : targetIsValidTransition(e[1], e[2])}
       = {<<"Discovered", "Attached">>, <<"Attached", "Active">>,
          <<"Active", "Detached">>, <<"Discovered", "Detached">>,
          <<"Attached", "Detached">>}

\* An attached target that was never active has been detached.
C25_Witness ==
  /\ fnResult.of = "targetToDetached"
  /\ fnResult.from = "Attached"
  /\ ~fnResult.threw
  /\ fnArg.value.state = "Detached"

EntryStates == {"Created", "Buffered", "Streamed"}

\* C26: for a ConsoleEntry toBuffered returns only from Created and
\* toStreamed only from Buffered; Created to Streamed, every transition out
\* of Streamed and every backward transition throw.
C26_EntryTransitions ==
  /\ OnlyFrom("consoleToBuffered", {"Created"}, "Buffered")
  /\ OnlyFrom("consoleToStreamed", {"Buffered"}, "Streamed")
  /\ (fnArg.kind = "ConsoleEntry" /\ fnResult # NoResult /\ fnResult.from = "Streamed")
       => fnResult.threw
  /\ {e \in EntryStates \X EntryStates : entryIsValidTransition(e[1], e[2])}
       = {<<"Created", "Buffered">>, <<"Buffered", "Streamed">>}

C26_Witness ==
  /\ fnResult.of = "consoleToStreamed"
  /\ fnResult.from = "Created"
  /\ fnResult.threw


(***************************************************************************)
(* Query results carry no lifecycle state                                  *)
(***************************************************************************)
Stored(q) == getAll(IF q.kind = "console" THEN consoleBuffer ELSE networkBuffer)

\* C27: no entity returned by queryConsoleEntries or queryNetworkRequests
\* has a state field, whatever the state of the stored record, and its
\* other fields are those of a stored record, unchanged.
C27_StateStripped ==
  lastQuery # NoQuery =>
    \A i \in 1..Len(Returned(lastQuery)) :
      /\ "state" \notin DOMAIN Returned(lastQuery)[i]
      /\ \E j \in 1..Len(Stored(lastQuery)) :
           /\ DOMAIN Stored(lastQuery)[j] = DOMAIN Returned(lastQuery)[i] \cup {"state"}
           /\ \A f \in DOMAIN Returned(lastQuery)[i] :
                Returned(lastQuery)[i][f] = Stored(lastQuery)[j][f]

\* A query has returned two requests that are stored in different states.
C27_Witness ==
  /\ lastQuery.kind = "network"
  /\ Len(lastQuery.result.requests) = 2
  /\ {Stored(lastQuery)[j].state : j \in 1..Len(Stored(lastQuery))} = {"Created", "Completed"}


(***************************************************************************)
(* BufferManager.clear(): claims                                           *)
(***************************************************************************)
\* C28: after clear() both buffers have size 0 and the capacity they were
\* constructed with, both queries return an empty list and totalCount 0
\* under every option, and each buffer is as its constructor makes it, so
\* later adds behave as on a new store.
C28_ClearResets ==
  ret.op = "clear" =>
    /\ size(consoleBuffer) = 0 /\ getCapacity(consoleBuffer) = ConsoleCap
    /\ size(networkBuffer) = 0 /\ getCapacity(networkBuffer) = NetworkCap
    /\ \A options \in ConsoleQueryOptions :
         queryConsoleEntries(consoleBuffer, options) = [entries |-> <<>>, totalCount |-> 0]
    /\ \A options \in NetworkQueryOptions :
         queryNetworkRequests(networkBuffer, options) = [requests |-> <<>>, totalCount |-> 0]
    /\ consoleBuffer = CircularBuffer(ConsoleCap)
    /\ networkBuffer = CircularBuffer(NetworkCap)

\* clear() has dropped the records of a full buffer.
C28_Witness ==
  /\ ret.op = "clear"
  /\ ret.cleared = NetworkCap
  /\ focus = "network"


(***************************************************************************)
(* The lifecycle of the stored record of a request                         *)
(***************************************************************************)
RecordOf(buffer, requestId) == find(getAll(buffer), requestId)[1]

\* C29: under any order and repetition of the four network events the
\* stored record of a request changes its state along legal edges only, and
\* a record that is Completed or Failed is not replaced or changed by a
\* later event of its request.
C29_StoredStateFollowsLifecycle ==
  [][\A id \in EventIds :
       (HasRecord(networkBuffer, id) /\ HasRecord(networkBuffer', id)) =>
         /\ \/ RecordOf(networkBuffer', id).state = RecordOf(networkBuffer, id).state
            \/ requestIsValidTransition(RecordOf(networkBuffer, id).state,
                                        RecordOf(networkBuffer', id).state)
         /\ RecordOf(networkBuffer, id).state \in {"Completed", "Failed"} =>
              RecordOf(networkBuffer', id) = RecordOf(networkBuffer, id)]_vars


(***************************************************************************)
(* connect(): creation of a target                                         *)
(***************************************************************************)
\* C30: when discovery yields no attachable target and createNewTarget
\* creates one, the same attempt goes on to open its session to that
\* target; when the creation fails, the attempt fails and the retry policy
\* takes over (a backoff sleep, or the terminal error).
C30_CreatedTargetIsUsed ==
  [][\A c \in ConnectCalls :
       (call[c].pc = "create" /\ call'[c].pc # "create") =>
         IF target' # target
         THEN call'[c].pc = "open" /\ target'[1].id = "new"
         ELSE call'[c].pc = "sleep" \/ ret'.outcome = "raised"]_vars


(***************************************************************************)
(* The single session of the manager                                       *)
(***************************************************************************)
OpenSessions == {sid \in 1..Len(sessions) : sessions[sid].open}

\* C31: at most one session to the remote endpoint is open at any time, and
\* every open session is the one the manager holds, also when connect() is
\* invoked again while an earlier connect() is still in progress.
C31_SingleHeldSession ==
  /\ Cardinality(OpenSessions) <= 1
  /\ \A sid \in OpenSessions : client = sid

\* C32: when disconnect() was called while a connect() was in progress and
\* both have settled, with no connect() issued since, the manager holds no
\* session and no target.
C32_DisconnectWins ==
  \A c \in ConnectCalls :
    (call[c].pc = "idle" /\ call[c].interrupted /\ closing = NoClient) =>
      client = NoClient /\ target = Undefined

C34_FreshRetryBudget ==
  (ret.op = "connect" /\ ret.outcome = "raised" /\ endpoint = "down") =>
    /\ call[ret.call].tries = MaxReconnectAttempts + 1
    /\ Len(call[ret.call].waits) = MaxReconnectAttempts


(***************************************************************************)
(* The runtime-eval tool: what a refused expression answers                *)
(***************************************************************************)
\* C35: a runtime-eval call whose expression the denylist rejects gives its
\* caller the security violation, thrown or as the error of the response:
\* neither an invalid-transition error nor a result takes its place.
C35_SecurityViolationSurfaced ==
  (/\ fnResult.of = "cdp.runtime.eval"
   /\ fnArg.target # Undefined
   /\ ~isExpressionSafe(fnArg.expression)) =>
    /\ IF fnResult.tool.threw
       THEN fnResult.tool.message = "security violation"
       ELSE /\ fnResult.tool.output.error = <<"security violation">>
            /\ fnResult.tool.output.result = Undefined
    /\ ~fnResult.value.evaluatedLocally


(***************************************************************************)
(* The events of one request in protocol order                             *)
(***************************************************************************)
\* The request ids of the stored records, oldest first.
StoredIds(buffer) == [i \in 1..Len(getAll(buffer)) |-> getAll(buffer)[i].requestId]

\* An event whose fields NetworkRequestSchema accepts.
WellFormed(event) ==
  /\ event.url # <<>>
  /\ event.method \in HttpMethods
  /\ event.type = "responseReceived" => event.status \in 100..599

\* The step of an event that is next in the order of its request: the
\* record it leaves, which keeps its timestamp and its place.
InProtocolOrder ==
  LET event == ret'.event
      id == event.requestId
      old == RecordOf(networkBuffer, id)
      new == RecordOf(networkBuffer', id)
      Kept == new.timestamp = old.timestamp /\ StoredIds(networkBuffer') = StoredIds(networkBuffer)
  IN /\ (event.type = "requestWillBeSent" /\ ~HasRecord(networkBuffer, id)) =>
          /\ HasRecord(networkBuffer', id)
          /\ new.state = "Created" /\ ~new.failed /\ new.status = Undefined
     /\ (/\ event.type = "responseReceived" /\ HasRecord(networkBuffer, id)
         /\ old.state = "Created") =>
          /\ HasRecord(networkBuffer', id)
          /\ new.state = "Updated" /\ new.status = <<event.status>>
          /\ new.responseHeaders = <<event.headers>> /\ Kept
     /\ (/\ event.type = "requestFinished" /\ HasRecord(networkBuffer, id)
         /\ old.state = "Updated") =>
          /\ HasRecord(networkBuffer', id)
          /\ new.state = "Completed" /\ new.status = old.status /\ Kept
     /\ (/\ event.type = "requestFailed" /\ HasRecord(networkBuffer, id)
         /\ old.state \in {"Created", "Updated"}) =>
          /\ HasRecord(networkBuffer', id)
          /\ new.state = "Failed" /\ new.failed /\ Kept

\* C36 as stated: for the events of one request in protocol order,
\* requestWillBeSent stores a record Created with failed = false and no
\* status, responseReceived leaves it Updated with the status and headers of
\* the response, requestFinished leaves it Completed, requestFailed leaves
\* it Failed with failed = true, and the record keeps its timestamp and its
\* place in the buffer.
C36_ProtocolOrder == [][ret'.op = "networkEvent" => InProtocolOrder]_vars

\* C36, for the events that pass the validation of the entity: a supported
\* method, a url, and a response status of 100 to 599.
C36_ValidProtocolOrder ==
  [][(ret'.op = "networkEvent" /\ WellFormed(ret'.event)) => InProtocolOrder]_vars

\* A request that was sent, answered with status 200 and finished, in a
\* buffer that holds another request as well.
C36_Witness ==
  /\ ret.op = "networkEvent"
  /\ ret.type = "requestFinished"
  /\ HasRecord(networkBuffer, ret.requestId)
  /\ RecordOf(networkBuffer, ret.requestId).state = "Completed"
  /\ RecordOf(networkBuffer, ret.requestId).status = <<200>>
  /\ RecordOf(networkBuffer, ret.requestId).responseHeaders = <<"h">>
  /\ size(networkBuffer) = 2


(***************************************************************************)
(* replaceFirst: which item it replaces                                    *)
(***************************************************************************)
\* The place of the first item of s that is `old`.
FirstMatch(s, old) == CHOOSE i \in 1..Len(s) : s[i] = old /\ \A j \in 1..(i - 1) : s[j] # old

\* C37: a replaceFirst that finds a match substitutes newItem for the
\* first matching item in getAll (oldest-first) order, at its place, and
\* changes nothing else: no other item moves, and the next add evicts what
\* it would have evicted.  A step that changes the buffer and not the
\* history of adds is such a replaceFirst.
C37_ReplacesOldestMatch ==
  [][(ringHist' = ringHist /\ ring' # ring) =>
       \E old \in RingItems, newItem \in RingItems :
         /\ \E i \in 1..Len(getAll(ring)) : getAll(ring)[i] = old
         /\ getAll(ring') = [getAll(ring) EXCEPT ![FirstMatch(getAll(ring), old)] = newItem]
         /\ ring'.nextIndex = ring.nextIndex]_vars


(***************************************************************************)
(* The console output of an evaluation                                     *)
(***************************************************************************)
\* C38: the consoleOutput of a runtime-eval response holds, in the order of
\* their arrival, exactly the console entries that the session emitted
\* between the start and the end of that evaluation.
C38_ConsoleOutputCaptured ==
  \A e \in EvalCalls :
    capture.evals[e].pc = "done" =>
      /\ Len(capture.evals[e].consoleOutput) = Len(capture.evals[e].emitted)
      /\ \A i \in 1..Len(capture.evals[e].emitted) :
           capture.evals[e].consoleOutput[i].message = capture.evals[e].emitted[i].text


(***************************************************************************)
(* What a reader of the buffer can observe between two operations          *)
(***************************************************************************)
\* add on the oldest-first contents of a buffer of capacity n.
Added1(s, item, n) == IF Len(s) < n THEN Append(s, item) ELSE Append(Tail(s), item)

\* C39: what getAll gives between any two operations is the result of the
\* completed add, replaceFirst and clear operations, each taken whole: an
\* add appends its item and drops the oldest when the buffer is full, a
\* replaceFirst substitutes one matching item and leaves the number and the
\* order of the others, and a clear leaves nothing of the earlier contents.
C39_WholeOperations ==
  [][LET before == getAll(ring)
         after == getAll(ring')
     IN IF Len(ringHist') > Len(ringHist)
        THEN after = Added1(before, ringHist'[Len(ringHist')], ring.capacity)
        ELSE IF ringHist' # ringHist
        THEN after = <<>>
        ELSE \/ after = before
             \/ \E i \in 1..Len(before), newItem \in RingItems :
                  after = [before EXCEPT ![i] = newItem]]_vars

\* A buffer that has wrapped and in which an item has been replaced.
C39_Witness ==
  /\ ~ringClean
  /\ Len(ringHist) > ring.capacity
  /\ ring.capacity > 1
  /\ getAll(ring) # LastN(ringHist, ring.capacity)


(***************************************************************************)
(* Raw events that fail the validation of their entity                     *)
(***************************************************************************)
\* C40: a raw console or network event that fails the validation of its
\* entity (an empty message text, a method outside the supported enum, a url
\* that is none, a status outside 100..599) leaves both buffers as they
\* are, and the valid events that follow are buffered all the same: a
\* message with a text becomes the newest console entry and a valid
\* requestWillBeSent leaves a record of its request.
C40_InvalidEventDropped ==
  [][/\ (ret'.op = "consoleMessage" /\ ret'.message.text = "") =>
          UNCHANGED <<consoleBuffer, networkBuffer>>
     /\ (ret'.op = "networkEvent" /\ ~WellFormed(ret'.event)) =>
          UNCHANGED <<consoleBuffer, networkBuffer>>
     /\ (ret'.op = "consoleMessage" /\ ret'.message.text # "") =>
          /\ size(consoleBuffer') > 0
          /\ getAll(consoleBuffer')[size(consoleBuffer')].message = ret'.message.text
     /\ (/\ ret'.op = "networkEvent" /\ WellFormed(ret'.event)
         /\ ret'.type = "requestWillBeSent") =>
          HasRecord(networkBuffer', ret'.requestId)]_vars

\* A request with a refused method arrived at a full buffer.
C40_Witness ==
  /\ ret.op = "networkEvent"
  /\ ~WellFormed(ret.event)
  /\ ret.event.method \notin HttpMethods
  /\ ~HasRecord(networkBuffer, ret.requestId)
  /\ size(networkBuffer) = getCapacity(networkBuffer)

====
